---- MODULE Spec2Model ----
(***************************************************************************)
(* Verification model of the Rig Veda ingestion pipeline:                  *)
(*   scripts/merge_translations.py  (merge of a secondary translation      *)
(*                                   source into the canonical JSONL set)  *)
(*   scripts/parse_rigveda.py       (parse_files: the canonical set)       *)
(*   scripts/clean_griffith_csv.py  (clean_dataframe: the deduplicator)    *)
(*                                                                         *)
(* Data representation.                                                    *)
(*   A canonical record is a record with the fields id, mandala, sukta,    *)
(*   verse_index, translation and notes.  The empty string stands for both *)
(*   a null and an empty JSON string: the merge reads both fields only     *)
(*   through truthiness tests (rec.get('translation'); notes or "").       *)
(*   notes, a semicolon-joined tag list, is the sequence of its tags.      *)
(*   A secondary entry is [key |-> <<m, s, v>>, text |-> t], the pair      *)
(*   load_translations appends to entries_by_ms; 0 is an unknown component.*)
(***************************************************************************)
EXTENDS Integers, Sequences, FiniteSets, TLC

\* ------------------------------------------------------------------ bounds
MaxRecs == 2
MaxEntries == 2
MaxVerse == 2
MaxRuns == 2

\* ------------------------------------------------------- program constants
\* _sort_key: entries without a positive verse index sort last (1e9)
SortLast == 1000000000
\* unmapped_translation_examples keeps at most 20 examples
ExamplesCap == 20

Empty == ""

Truthy(t) == t # Empty

Min(a, b) == IF a <= b THEN a ELSE b

\* ------------------------------------------------------------ input domains
Suktas == {1, 2}
Locators == {<<1, 1, v>> : v \in 1..MaxVerse} \cup {<<1, 2, 1>>}
UnknownKeys == {<<0, 0, 0>>, <<1, 1, 0>>}
SecondaryKeys == Locators \cup UnknownKeys
OldTexts == {Empty, "old"}
NewTexts == {Empty, "T1", "T2"}

SeqsUpTo(S, n) == UNION {[1..k -> S] : k \in 0..n}

RecordOf(i, loc, t, n) ==
  [id |-> i, mandala |-> loc[1], sukta |-> loc[2], verse_index |-> loc[3],
   translation |-> t, notes |-> n]

\* the canonical sets a run may be given: any JSONL file of at most MaxRecs records
Datasets ==
  UNION {{[i \in 1..k |-> RecordOf(i, l[i], t[i], IF Truthy(t[i]) THEN <<>> ELSE <<"deity_missing">>)] :
            l \in [1..k -> Locators], t \in [1..k -> OldTexts]} : k \in 1..MaxRecs}

EntryOf(k, t) == [key |-> k, text |-> t]
Entries == {EntryOf(k, t) : k \in SecondaryKeys, t \in NewTexts}
Sources == SeqsUpTo(Entries, MaxEntries)

\* ------------------------------------------------------------------- state
VARIABLES
  file,        \* the canonical JSONL file (dataset path = output path)
  pc,          \* position of the merge run
  dataset,     \* merge: the records in memory
  orig,        \* merge: orig_dataset, the deep copy taken at load
  afterExact,  \* merge: the records as pass 1 left them
  src,         \* the secondary source of the run, in file order
  overwrite,   \* --overwrite
  fuzzy,       \* --fuzzy
  stats,       \* merge: the summary counters
  updated,     \* merge: updated_indices
  unmatched,   \* merge: the final unmatched list
  runs,        \* completed runs
  prevOrig,    \* orig of the run before this one
  prevStats,   \* stats of the run before this one
  input,       \* parse_files: the entries of the input files, in reading order
  maxSuktas,   \* parse_files: --max-suktas, 0 when not given
  summary,     \* parse_files: the summary written and returned, or the exception raised
  df,          \* clean_dataframe: the rows of the input CSV, in file order
  minLength,   \* clean_dataframe: min_length
  cleaned,     \* clean_dataframe: cleaned_rows
  review,      \* clean_dataframe: review_rows
  cleanStats,  \* clean_dataframe: stats
  lines,            \* griffith_plain_to_csv_v2.parse_file: the lines of the input text
  segMinLength,     \* parse_file: min_length
  allow_roman,      \* parse_file: allow_roman
  paras,            \* parse_file: paras
  para,             \* parse_file: the number of paragraphs the loop has handled
  current_mandala,  \* parse_file: current_mandala
  current_sukta,    \* parse_file: current_sukta
  verse_counter,    \* parse_file: verse_counter
  segEntries,       \* parse_file: entries
  svBlocks,         \* parse_html_grouping: the verse-id matches of each block, in order
  b_idx,            \* parse_html_grouping: the number of blocks the loop has handled
  grouped,          \* parse_html_grouping: grouped, in dict order
  svEntries,        \* parse_html_grouping: entries
  rtN,              \* roman round trip: the integer
  rtRoman,          \* roman round trip: its numeral
  rtBack,           \* roman round trip: roman_to_int of the numeral
  crawl_mandala,       \* crawl: mandala
  crawl_hymn,          \* crawl: hymn
  consecutive_misses,  \* crawl: consecutive_misses
  tries,               \* fetch_url: tries
  manifest,            \* crawl: manifest, as <<mandala, hymn>> pairs
  suktaText,           \* parse_files: the normalized text of one entry, line by line
  hdrBody,             \* extract_header_fields: body, line by line
  hdrVerses            \* split_into_stanzas: verses

vars == <<file, pc, dataset, orig, afterExact, src, overwrite, fuzzy, stats, updated,
          unmatched, runs, prevOrig, prevStats, input, maxSuktas, summary,
          df, minLength, cleaned, review, cleanStats,
          lines, segMinLength, allow_roman, paras, para,
          current_mandala, current_sukta, verse_counter, segEntries,
          svBlocks, b_idx, grouped, svEntries, rtN, rtRoman, rtBack,
          crawl_mandala, crawl_hymn, consecutive_misses, tries, manifest,
          suktaText, hdrBody, hdrVerses>>

mergeVars == <<dataset, orig, afterExact, src, overwrite, fuzzy, stats, updated,
               unmatched, prevOrig, prevStats>>

parseVars == <<input, maxSuktas, summary>>

cleanVars == <<df, minLength, cleaned, review, cleanStats>>

segVars == <<lines, segMinLength, allow_roman, paras, para,
             current_mandala, current_sukta, verse_counter, segEntries>>

subVars == <<svBlocks, b_idx, grouped, svEntries>>

romanVars == <<rtN, rtRoman, rtBack>>

crawlVars == <<crawl_mandala, crawl_hymn, consecutive_misses, tries, manifest>>

headVars == <<suktaText, hdrBody, hdrVerses>>

\* ----------------------------------------------------- load_translations
KeyOf(rec) == <<rec.mandala, rec.sukta, rec.verse_index>>

\* the keys of griffith_map in dict order: a key stands where it was first inserted
RECURSIVE MapKeys(_)
MapKeys(s) ==
  IF s = <<>> THEN <<>>
  ELSE LET front == MapKeys(SubSeq(s, 1, Len(s) - 1))
           k == s[Len(s)].key
       IN IF \E i \in DOMAIN front : front[i] = k THEN front ELSE Append(front, k)

\* griffith_map[key]: mapping[(m,s,v)] = t, a later row replaces an earlier one
MapText(s, k) ==
  LET at == {i \in DOMAIN s : s[i].key = k}
  IN s[CHOOSE i \in at : \A j \in at : j <= i].text

InMap(s, k) == \E i \in DOMAIN s : s[i].key = k

\* entries_by_ms: the (m, s) groups in dict order, and the entries of a group in file order
RECURSIVE GroupKeys(_)
GroupKeys(s) ==
  IF s = <<>> THEN <<>>
  ELSE LET front == GroupKeys(SubSeq(s, 1, Len(s) - 1))
           g == <<s[Len(s)].key[1], s[Len(s)].key[2]>>
       IN IF \E i \in DOMAIN front : front[i] = g THEN front ELSE Append(front, g)

RECURSIVE Filter(_, _)
Filter(s, g) ==
  IF s = <<>> THEN <<>>
  ELSE LET front == Filter(SubSeq(s, 1, Len(s) - 1), g)
           e == s[Len(s)]
       IN IF <<e.key[1], e.key[2]>> = g THEN Append(front, e) ELSE front

GroupEntries(s, g) == Filter(s, g)

\* ----------------------------------------------------------- index_dataset
\* a stable sort of <<sort key, item>> pairs, as list.sort and sorted are
RECURSIVE InsertStable(_, _)
InsertStable(p, t) ==
  IF t = <<>> THEN <<p>>
  ELSE IF t[Len(t)][1] <= p[1] THEN Append(t, p)
       ELSE Append(InsertStable(p, SubSeq(t, 1, Len(t) - 1)), t[Len(t)])

RECURSIVE StableSort(_)
StableSort(s) ==
  IF s = <<>> THEN <<>>
  ELSE InsertStable(s[Len(s)], StableSort(SubSeq(s, 1, Len(s) - 1)))

\* index[(m,s,v)]: the dataset indices of a locator, in dataset order
RECURSIVE IndexExact(_, _)
IndexExact(ds, k) ==
  IF ds = <<>> THEN <<>>
  ELSE LET front == IndexExact(SubSeq(ds, 1, Len(ds) - 1), k)
       IN IF KeyOf(ds[Len(ds)]) = k THEN Append(front, Len(ds)) ELSE front

\* ms_index[(m,s)]: <<verse_index, idx>> of the group's records, sorted by verse_index
RECURSIVE MsPairs(_, _)
MsPairs(ds, g) ==
  IF ds = <<>> THEN <<>>
  ELSE LET front == MsPairs(SubSeq(ds, 1, Len(ds) - 1), g)
           r == ds[Len(ds)]
       IN IF <<r.mandala, r.sukta>> = g THEN Append(front, <<r.verse_index, Len(ds)>>) ELSE front

MsIndex(ds, g) == StableSort(MsPairs(ds, g))

\* ------------------------------------------------------------------- merge
\* the tag put in front of the notes
AddTag_Prepend(notes, tag) == <<tag>> \o notes

AddTag(notes, tag) == Append(notes, tag)

HasTag(notes, tag) == \E i \in DOMAIN notes : notes[i] = tag

Bump(st, field) == [st EXCEPT ![field] = @ + 1]

InitStats(ds, s) ==
  [total_dataset_records |-> Len(ds),
   total_translation_entries |-> Len(MapKeys(s)),
   exact_matches_applied |-> 0,
   sequence_matches_applied |-> 0,
   skipped_existing_translations |-> 0,
   overwritten_translations |-> 0,
   unmatched_translation_keys |-> 0,
   final_unmatched_translation_keys |-> 0,
   unmapped_translation_examples |-> <<>>]

AddExample(st, ex) ==
  IF Len(st.unmapped_translation_examples) < ExamplesCap
  THEN [st EXCEPT !.unmapped_translation_examples = Append(@, ex)]
  ELSE st

\* the memory of a run: m.ds the records, m.st the counters, m.up updated_indices

\* a pass 1 that tags and counts every write as a plain merge
ExactApply_NoOverwriteTag(m, idx, text, ow) ==
  LET rec == m.ds[idx]
      existing == rec.translation
  IN IF Truthy(existing) /\ ~ow
     THEN [m EXCEPT
             !.st = Bump(@, "skipped_existing_translations"),
             !.ds[idx].notes = IF HasTag(rec.notes, "griffith_present") THEN @
                               ELSE AddTag(@, "griffith_present")]
     ELSE [m EXCEPT
             !.ds[idx].translation = text,
             !.ds[idx].notes = AddTag(@, "griffith_merged"),
             !.up = @ \cup {idx},
             !.st = Bump(@, "exact_matches_applied")]

\* a pass 1 that leaves skipped_existing_translations alone
ExactApply_NoSkipCount(m, idx, text, ow) ==
  LET rec == m.ds[idx]
      existing == rec.translation
  IN IF Truthy(existing) /\ ~ow
     THEN [m EXCEPT
             !.ds[idx].notes = IF HasTag(rec.notes, "griffith_present") THEN @
                               ELSE AddTag(@, "griffith_present")]
     ELSE [m EXCEPT
             !.ds[idx].translation = text,
             !.ds[idx].notes = AddTag(@, IF Truthy(existing) /\ ow THEN "griffith_overwritten"
                                          ELSE "griffith_merged"),
             !.up = @ \cup {idx},
             !.st = IF Truthy(existing) /\ ow THEN Bump(@, "overwritten_translations")
                    ELSE Bump(@, "exact_matches_applied")]

\* pass 1, the body of "for idx in idxs"
ExactApply(m, idx, text, ow) ==
  LET rec == m.ds[idx]
      existing == rec.translation
  IN IF Truthy(existing) /\ ~ow
     THEN [m EXCEPT
             !.st = Bump(@, "skipped_existing_translations"),
             !.ds[idx].notes = IF HasTag(rec.notes, "griffith_present") THEN @
                               ELSE AddTag(@, "griffith_present")]
     ELSE [m EXCEPT
             !.ds[idx].translation = text,
             !.ds[idx].notes = AddTag(@, IF Truthy(existing) /\ ow THEN "griffith_overwritten"
                                          ELSE "griffith_merged"),
             !.up = @ \cup {idx},
             !.st = IF Truthy(existing) /\ ow THEN Bump(@, "overwritten_translations")
                    ELSE Bump(@, "exact_matches_applied")]

RECURSIVE ExactIdxs(_, _, _, _)
ExactIdxs(m, idxs, text, ow) ==
  IF idxs = <<>> THEN m
  ELSE ExactIdxs(ExactApply(m, Head(idxs), text, ow), Tail(idxs), text, ow)

\* pass 1, the body of "for key, text in griffith_map.items()"
ExactKey(m, k, text, ow) ==
  LET idxs == IndexExact(m.ds, k)
  IN IF idxs # <<>>
     THEN ExactIdxs(m, idxs, text, ow)
     ELSE [m EXCEPT !.st = AddExample(Bump(@, "unmatched_translation_keys"),
                                      [key |-> k, text_snip |-> text])]

RECURSIVE ExactKeys(_, _, _, _)
ExactKeys(m, keys, s, ow) ==
  IF keys = <<>> THEN m
  ELSE ExactKeys(ExactKey(m, Head(keys), MapText(s, Head(keys)), ow), Tail(keys), s, ow)

ExactPassOf(m, s, ow) == ExactKeys(m, MapKeys(s), s, ow)

\* a sort key that lets the unknown index 0 sort first
SortKey_ZeroFirst(e) == e.key[3]

\* pass 2, _sort_key: the entry's own verse index when positive, else last
SortKey(e) == IF e.key[3] > 0 THEN e.key[3] ELSE SortLast

EntriesSorted(entries) ==
  LET keyed == [i \in DOMAIN entries |-> <<SortKey(entries[i]), entries[i]>>]
      sorted == StableSort(keyed)
  IN [i \in DOMAIN sorted |-> sorted[i][2]]

DsIndices(ds, g) ==
  LET ds_list == MsIndex(ds, g)
  IN [i \in DOMAIN ds_list |-> ds_list[i][2]]

\* a pass 2 that writes whatever the record holds
SeqApply_NoGuard(m, g, i, e, target_idx, ow) ==
  [m EXCEPT
     !.ds[target_idx].translation = e.text,
     !.ds[target_idx].notes = AddTag(@, "griffith_seq_merged"),
     !.up = @ \cup {target_idx},
     !.st = Bump(@, "sequence_matches_applied")]

\* pass 2, the body of "for i in range(n_match)"
SeqApply(m, g, i, e, target_idx, ow) ==
  LET rec == m.ds[target_idx]
      existing == rec.translation
  IN IF Truthy(existing) /\ ~ow
     THEN [m EXCEPT
             !.st = AddExample(Bump(@, "skipped_existing_translations"),
                               [sequence_skipped |-> <<g, i>>, existing_snip |-> existing])]
     ELSE [m EXCEPT
             !.ds[target_idx].translation = e.text,
             !.ds[target_idx].notes = AddTag(@, "griffith_seq_merged"),
             !.up = @ \cup {target_idx},
             !.st = Bump(@, "sequence_matches_applied")]

RECURSIVE SeqPairs(_, _, _, _, _, _, _)
SeqPairs(m, g, i, n_match, entries_sorted, ds_indices, ow) ==
  IF i > n_match THEN m
  ELSE SeqPairs(SeqApply(m, g, i - 1, entries_sorted[i], ds_indices[i], ow),
                g, i + 1, n_match, entries_sorted, ds_indices, ow)

\* pass 2, the body of "for ms, entries in griffith_by_ms.items()"
SeqGroup(m, g, s, ow) ==
  LET ds_indices == DsIndices(m.ds, g)
      entries_sorted == EntriesSorted(GroupEntries(s, g))
      n_match == Min(Len(entries_sorted), Len(ds_indices))
  IN IF ds_indices = <<>> THEN m
     ELSE SeqPairs(m, g, 1, n_match, entries_sorted, ds_indices, ow)

RECURSIVE SeqGroups(_, _, _, _)
SeqGroups(m, groups, s, ow) ==
  IF groups = <<>> THEN m
  ELSE SeqGroups(SeqGroup(m, Head(groups), s, ow), Tail(groups), s, ow)

SeqPassOf(m, s, ow, fz) == IF fz THEN SeqGroups(m, GroupKeys(s), s, ow) ELSE m

\* pass 3: the keys of griffith_map left unmatched
MatchedViaSeq(ds, k, text, fz) ==
  /\ fz
  /\ \E i \in DOMAIN ds :
       /\ <<ds[i].mandala, ds[i].sukta>> = <<k[1], k[2]>>
       /\ Truthy(ds[i].translation)
       /\ ds[i].translation = text

RECURSIVE UnmatchedOf(_, _, _, _)
UnmatchedOf(ds, keys, s, fz) ==
  IF keys = <<>> THEN <<>>
  ELSE LET front == UnmatchedOf(ds, SubSeq(keys, 1, Len(keys) - 1), s, fz)
           k == keys[Len(keys)]
           text == MapText(s, k)
       IN IF IndexExact(ds, k) # <<>> THEN front
          ELSE IF MatchedViaSeq(ds, k, text, fz) THEN front
          ELSE Append(front, [key |-> k, text_snip |-> text])

FinalUnmatched(ds, s, fz) == UnmatchedOf(ds, MapKeys(s), s, fz)

\* ------------------------------------------------------------------ actions
NoStats == InitStats(<<>>, <<>>)

MergeIdle ==
  /\ dataset = <<>>
  /\ orig = <<>>
  /\ afterExact = <<>>
  /\ src = <<>>
  /\ overwrite = FALSE
  /\ fuzzy = FALSE
  /\ stats = NoStats
  /\ updated = {}
  /\ unmatched = <<>>
  /\ runs = 0
  /\ prevOrig = <<>>
  /\ prevStats = NoStats

\* no summary file yet
NoSummary == [raised |-> FALSE, written |-> FALSE, total_records |-> 0]

ParseIdle ==
  /\ input = <<>>
  /\ maxSuktas = 0
  /\ summary = NoSummary

NoCleanStats ==
  [total_rows |-> 0, dropped_junk |-> 0, kept |-> 0, dedup_groups |-> 0, ambiguous_groups |-> 0]

CleanIdle ==
  /\ df = <<>>
  /\ minLength = 0
  /\ cleaned = <<>>
  /\ review = <<>>
  /\ cleanStats = NoCleanStats

SegIdle ==
  /\ lines = <<>>
  /\ segMinLength = 0
  /\ allow_roman = FALSE
  /\ paras = <<>>
  /\ para = 0
  /\ current_mandala = 0
  /\ current_sukta = 0
  /\ verse_counter = 0
  /\ segEntries = <<>>

SubIdle ==
  /\ svBlocks = <<>>
  /\ b_idx = 0
  /\ grouped = <<>>
  /\ svEntries = <<>>

RomanIdle ==
  /\ rtN = 0
  /\ rtRoman = <<>>
  /\ rtBack = 0

CrawlIdle ==
  /\ crawl_mandala = 0
  /\ crawl_hymn = 0
  /\ consecutive_misses = 0
  /\ tries = 0
  /\ manifest = <<>>

HeadIdle ==
  /\ suktaText = <<>>
  /\ hdrBody = <<>>
  /\ hdrVerses = <<>>

InitMerge ==
  /\ file \in Datasets
  /\ pc = "idle"
  /\ MergeIdle
  /\ SegIdle
  /\ SubIdle
  /\ RomanIdle
  /\ CrawlIdle
  /\ HeadIdle
  /\ ParseIdle
  /\ CleanIdle

\* merge, lines 177-205: load the dataset, keep the deep copy, load the source
LoadWith(s, ow, fz) ==
  /\ pc = "idle"
  /\ runs < MaxRuns
  /\ pc' = "loaded"
  /\ dataset' = file
  /\ orig' = file
  /\ afterExact' = file
  /\ src' = s
  /\ overwrite' = ow
  /\ fuzzy' = fz
  /\ stats' = InitStats(file, s)
  /\ updated' = {}
  /\ unmatched' = <<>>
  /\ prevOrig' = orig
  /\ prevStats' = stats
  /\ UNCHANGED <<file, runs, parseVars, cleanVars, segVars, subVars, romanVars, crawlVars, headVars>>

\* the first run: any secondary source, any flags
Load ==
  /\ runs = 0
  /\ \E s \in Sources, ow \in BOOLEAN, fz \in BOOLEAN : LoadWith(s, ow, fz)

\* the same command run again on the merged set
Reload ==
  /\ runs > 0
  /\ LoadWith(src, overwrite, fuzzy)

\* merge, lines 207-238
ExactPass ==
  /\ pc = "loaded"
  /\ LET m == ExactPassOf([ds |-> dataset, st |-> stats, up |-> updated], src, overwrite)
     IN /\ dataset' = m.ds
        /\ stats' = m.st
        /\ updated' = m.up
  /\ afterExact' = dataset'
  /\ pc' = "exact_done"
  /\ UNCHANGED <<file, orig, src, overwrite, fuzzy, unmatched, runs, prevOrig, prevStats, parseVars, cleanVars, segVars, subVars, romanVars, crawlVars, headVars>>

\* merge, lines 240-282
SeqPass ==
  /\ pc = "exact_done"
  /\ LET m == SeqPassOf([ds |-> dataset, st |-> stats, up |-> updated], src, overwrite, fuzzy)
     IN /\ dataset' = m.ds
        /\ stats' = m.st
        /\ updated' = m.up
  /\ pc' = "seq_done"
  /\ UNCHANGED <<file, orig, afterExact, src, overwrite, fuzzy, unmatched, runs, prevOrig, prevStats, parseVars, cleanVars, segVars, subVars, romanVars, crawlVars, headVars>>

\* merge, lines 284-303
Report ==
  /\ pc = "seq_done"
  /\ unmatched' = FinalUnmatched(dataset, src, fuzzy)
  /\ stats' = [stats EXCEPT !.final_unmatched_translation_keys = Len(unmatched')]
  /\ pc' = "reported"
  /\ UNCHANGED <<file, dataset, orig, afterExact, src, overwrite, fuzzy, updated, runs, prevOrig, prevStats, parseVars, cleanVars, segVars, subVars, romanVars, crawlVars, headVars>>

\* merge, lines 305-306: write_jsonl(dataset, out_path)
WriteOut ==
  /\ pc = "reported"
  /\ file' = dataset
  /\ runs' = runs + 1
  /\ pc' = "idle"
  /\ UNCHANGED <<dataset, orig, afterExact, src, overwrite, fuzzy, stats, updated, unmatched,
                 prevOrig, prevStats, parseVars, cleanVars, segVars, subVars, romanVars, crawlVars,
                 headVars>>

Next == Load \/ Reload \/ ExactPass \/ SeqPass \/ Report \/ WriteOut

Spec == InitMerge /\ [][Next]_vars

\* -------------------------------------------------------- parse_rigveda.py
MaxInputEntries == 2
MaxStanzas == 2

DigitChars == <<"0", "1", "2", "3", "4", "5", "6", "7", "8", "9">>

\* str(n) of a non-negative integer, as its characters
RECURSIVE Decimal(_)
Decimal(n) ==
  IF n < 10 THEN <<DigitChars[n + 1]>>
  ELSE Append(Decimal(n \div 10), DigitChars[(n % 10) + 1])

\* the format specification 0<w>d
RECURSIVE ZeroPad(_, _)
ZeroPad(d, w) == IF Len(d) >= w THEN d ELSE ZeroPad(<<"0">> \o d, w)

\* f"RV-{mandala:02d}-{sukta:03d}-{v['num']:02d}"
RecId(m, s, n) ==
  <<"R", "V", "-">> \o ZeroPad(Decimal(m), 2) \o <<"-">> \o ZeroPad(Decimal(s), 3)
    \o <<"-">> \o ZeroPad(Decimal(n), 2)

\* f"{mandala}.{sukta}.{v['num']}"
VerseId(m, s, n) == Decimal(m) \o <<".">> \o Decimal(s) \o <<".">> \o Decimal(n)

\* An input entry after lines 156-162: its mandala and sukta, the header fields
\* extract_header_fields found ("" when none) and the stanzas split_into_stanzas
\* returned, each [num, sanskrit].
Stanzas == {[num |-> n, sanskrit |-> t] : n \in 1..MaxVerse, t \in {"a", "ab"}}

InputEntryOf(s, verses) ==
  [mandala |-> 1, sukta |-> s,
   deity |-> IF s = 1 THEN "Agni" ELSE Empty,
   rishi |-> IF s = 1 THEN "Atri" ELSE Empty,
   metre |-> IF s = 1 THEN "jagati" ELSE Empty,
   verses |-> verses]

InputEntries == {InputEntryOf(s, v) : s \in Suktas, v \in SeqsUpTo(Stanzas, MaxStanzas)}

Inputs == SeqsUpTo(InputEntries, MaxInputEntries)

\* lines 186-190: the tags of the missing header fields
MissingNotes(e) ==
  (IF e.deity = Empty THEN <<"deity_missing">> ELSE <<>>)
    \o (IF e.rishi = Empty THEN <<"rishi_missing">> ELSE <<>>)
    \o (IF e.metre = Empty THEN <<"metre_missing">> ELSE <<>>)

\* lines 168-190
ParseRecord(e, v) ==
  [id |-> RecId(e.mandala, e.sukta, v.num),
   mandala |-> e.mandala, sukta |-> e.sukta, verse_index |-> v.num,
   verse_id |-> VerseId(e.mandala, e.sukta, v.num),
   deity |-> e.deity, rishi |-> e.rishi, metre |-> e.metre,
   sanskrit |-> v.sanskrit, translation |-> Empty,
   notes |-> MissingNotes(e)]

\* lines 163-193, "for v in verses": acc.records and acc.seen_ids
RECURSIVE CollectVerses(_, _, _)
CollectVerses(acc, e, verses) ==
  IF verses = <<>> THEN acc
  ELSE LET v == Head(verses)
           rec_id == RecId(e.mandala, e.sukta, v.num)
       IN CollectVerses(
            IF rec_id \in acc.seen_ids THEN acc
            ELSE [records |-> Append(acc.records, ParseRecord(e, v)),
                  seen_ids |-> acc.seen_ids \cup {rec_id}],
            e, Tail(verses))

\* lines 155-163, "for entry in data"
RECURSIVE CollectEntries(_, _, _)
CollectEntries(acc, entries, max_suktas) ==
  IF entries = <<>> THEN acc
  ELSE LET e == Head(entries)
       IN CollectEntries(
            IF max_suktas # 0 /\ e.sukta > max_suktas THEN acc
            ELSE CollectVerses(acc, e, e.verses),
            Tail(entries), max_suktas)

\* lines 197-203: one record per verse_id, a longer sanskrit replaces the kept one
RECURSIVE Dedup(_, _)
Dedup(deduped, records) ==
  IF records = <<>> THEN deduped
  ELSE LET rec == Head(records)
           at == {i \in DOMAIN deduped : deduped[i].verse_id = rec.verse_id}
       IN Dedup(
            IF at = {} THEN Append(deduped, rec)
            ELSE LET i == CHOOSE j \in at : TRUE
                 IN IF Len(rec.sanskrit) > Len(deduped[i].sanskrit)
                    THEN [deduped EXCEPT ![i] = rec]
                    ELSE deduped,
            Tail(records))

\* records written without either dedup
RECURSIVE AllRecords(_)
AllRecords(entries) ==
  IF entries = <<>> THEN <<>>
  ELSE LET e == Head(entries)
       IN [i \in DOMAIN e.verses |-> ParseRecord(e, e.verses[i])] \o AllRecords(Tail(entries))

ParseFiles_NoDedup(entries, max_suktas) == AllRecords(entries)

\* parse_files: the records written to the output file
ParseFiles(entries, max_suktas) ==
  Dedup(<<>>, CollectEntries([records |-> <<>>, seen_ids |-> {}], entries, max_suktas).records)

\* the keys of a record, lines 168-184
RecordFields == 15

\* lines 211-224: total = len(rec), rec being the variable of the loops of lines
\* 164-208; it is unbound when no record was built, and line 212 then raises
\* before the summary is written
SummaryOf(records) ==
  IF records = <<>> THEN [raised |-> TRUE, written |-> FALSE, total_records |-> 0]
  ELSE [raised |-> FALSE, written |-> TRUE, total_records |-> RecordFields]

\* the first stage of the pipeline writes the canonical set and its summary
ParseRun ==
  /\ pc = "raw"
  /\ \E records \in {ParseFiles(input, maxSuktas)} :
        /\ file' = records
        /\ summary' = SummaryOf(records)
  /\ pc' = "idle"
  /\ UNCHANGED <<mergeVars, runs, input, maxSuktas, cleanVars, segVars, subVars, romanVars, crawlVars, headVars>>

\* a merge run on the parsed set
PipelineSources == {<<EntryOf(k, "T1")>> : k \in {<<1, 1, 1>>, <<1, 1, 0>>}}

LoadParsed ==
  /\ runs = 0
  /\ \E s \in PipelineSources, ow \in BOOLEAN, fz \in BOOLEAN : LoadWith(s, ow, fz)

InitPipeline ==
  /\ file = <<>>
  /\ pc = "raw"
  /\ MergeIdle
  /\ SegIdle
  /\ SubIdle
  /\ RomanIdle
  /\ CrawlIdle
  /\ HeadIdle
  /\ CleanIdle
  /\ input \in Inputs
  /\ maxSuktas \in {0, 1}
  /\ summary = NoSummary

NextPipeline ==
  ParseRun \/ LoadParsed \/ Reload \/ ExactPass \/ SeqPass \/ Report \/ WriteOut

SpecPipeline == InitPipeline /\ [][NextPipeline]_vars

\* ------------------------------------------------------- merge: properties
RunDone == pc = "idle" /\ runs > 0

SecondRunDone == pc = "idle" /\ runs = 2

Card(S) == Cardinality(S)

\* the records of the run that have a secondary entry at their exact locator
Keyed(i) == InMap(src, KeyOf(orig[i]))

GroupOfRec(r) == <<r.mandala, r.sukta>>

GroupOfEntry(e) == <<e.key[1], e.key[2]>>

\* C1: with overwrite disabled, merging the same source a second time with the
\* same flags leaves every field of every record as the first run wrote it.
C1_SecondRunIsNoOp ==
  (SecondRunDone /\ ~overwrite) => file = orig

\* C2: without overwrite a populated translation keeps its pre-run value through
\* both passes, and a record with a secondary entry at its exact locator carries
\* the tag griffith_present afterwards.
C2_KeepsExisting ==
  (~overwrite) =>
    \A i \in DOMAIN orig :
      Truthy(orig[i].translation) =>
        /\ pc \in {"exact_done", "seq_done", "reported"} =>
             /\ dataset[i].translation = orig[i].translation
             /\ Keyed(i) => HasTag(dataset[i].notes, "griffith_present")
        /\ RunDone =>
             /\ file[i].translation = orig[i].translation
             /\ Keyed(i) => HasTag(file[i].notes, "griffith_present")

C2_Witness ==
  /\ pc = "seq_done" /\ ~overwrite /\ fuzzy
  /\ stats.skipped_existing_translations >= 2
  /\ \E i \in DOMAIN orig :
       /\ Truthy(orig[i].translation) /\ Keyed(i)
       /\ ~HasTag(orig[i].notes, "griffith_present")
       /\ MapText(src, KeyOf(orig[i])) # orig[i].translation

PopulatedKeyed == {i \in DOMAIN orig : Truthy(orig[i].translation) /\ Keyed(i)}

EmptyKeyed == {i \in DOMAIN orig : ~Truthy(orig[i].translation) /\ Keyed(i)}

\* C3 as stated: with overwrite, a populated record with a secondary entry at its
\* exact locator ends the run with that entry's text, the tag griffith_overwritten,
\* and one overwritten_translations count (none in exact_matches_applied).
C3_OverwriteAsStated ==
  (RunDone /\ overwrite) =>
    /\ \A i \in PopulatedKeyed :
         /\ \A j \in DOMAIN src : src[j].key = KeyOf(orig[i]) => file[i].translation = src[j].text
         /\ HasTag(file[i].notes, "griffith_overwritten")
    /\ stats.overwritten_translations = Card(PopulatedKeyed)
    /\ stats.exact_matches_applied = Card(EmptyKeyed)

\* the position of record i in its group's verse order, and the entry paired with it
PairedPos(i) ==
  LET ds_indices == DsIndices(orig, GroupOfRec(orig[i]))
  IN CHOOSE p \in DOMAIN ds_indices : ds_indices[p] = i

IsPaired(i) == fuzzy /\ PairedPos(i) <= Len(GroupEntries(src, GroupOfRec(orig[i])))

PairedEntry(i) == EntriesSorted(GroupEntries(src, GroupOfRec(orig[i])))[PairedPos(i)]

\* C3 (amended): with overwrite, pass 1 writes into such a record the text of the
\* last secondary entry with its locator, appends griffith_overwritten right after
\* the pre-run notes and counts it once in overwritten_translations only; at the
\* end of the run the translation is that text unless fuzzy is enabled and the
\* sequence pass has paired the record, and then it is the paired entry's text.
C3_OverwriteAmended ==
  (RunDone /\ overwrite) =>
    /\ \A i \in PopulatedKeyed :
         /\ afterExact[i].translation = MapText(src, KeyOf(orig[i]))
         /\ afterExact[i].notes = Append(orig[i].notes, "griffith_overwritten")
         /\ SubSeq(file[i].notes, 1, Len(orig[i].notes) + 1) = afterExact[i].notes
         /\ file[i].translation = IF IsPaired(i) THEN PairedEntry(i).text
                                  ELSE MapText(src, KeyOf(orig[i]))
    /\ stats.overwritten_translations = Card(PopulatedKeyed)
    /\ stats.exact_matches_applied = Card(EmptyKeyed)

C3_Witness ==
  /\ RunDone /\ overwrite
  /\ \E i \in PopulatedKeyed :
       /\ file[i].translation # orig[i].translation
       /\ file[i].translation = MapText(src, KeyOf(orig[i]))
       /\ stats.overwritten_translations = 1

\* C4: a run keeps the number of records and leaves every translation that was
\* populated before it populated.
C4_NeverClears ==
  RunDone =>
    /\ Len(file) = Len(orig)
    /\ \A i \in DOMAIN orig : Truthy(orig[i].translation) => Truthy(file[i].translation)

ExactlyMatched(e) == IndexExact(orig, e.key) # <<>>

\* C5: the sequence pass pairs only secondary entries without an exact canonical
\* match: a record whose translation pass 2 changed holds the text of such an entry
\* of its group.
C5_SeqOnlyUnmatched ==
  (pc \in {"seq_done", "reported"}) =>
    \A i \in DOMAIN orig :
      dataset[i] # afterExact[i] =>
        \E j \in DOMAIN src :
          /\ ~ExactlyMatched(src[j])
          /\ GroupOfEntry(src[j]) = GroupOfRec(orig[i])
          /\ src[j].text = dataset[i].translation

Bijections(n, S) == {f \in [1..n -> S] : \A a, b \in 1..n : f[a] = f[b] => a = b}

Known(e) == e.key[3] > 0

EntriesInClaimedOrder(f, n) ==
  \A a, b \in 1..n :
    a < b =>
      /\ (Known(src[f[a]]) /\ Known(src[f[b]])) => src[f[a]].key[3] <= src[f[b]].key[3]
      /\ ~Known(src[f[a]]) => (~Known(src[f[b]]) /\ f[a] < f[b])

RecordsInVerseOrder(c, n) ==
  \A a, b \in 1..n : a < b => orig[c[a]].verse_index <= orig[c[b]].verse_index

C6_GroupPaired(g) ==
  LET recs == {i \in DOMAIN orig : GroupOfRec(orig[i]) = g}
      ents == {j \in DOMAIN src : GroupOfEntry(src[j]) = g}
      nr == Card(recs)
      ne == Card(ents)
  IN \E c \in Bijections(nr, recs), f \in Bijections(ne, ents) :
       /\ RecordsInVerseOrder(c, nr)
       /\ EntriesInClaimedOrder(f, ne)
       /\ \A p \in 1..nr :
            /\ (p <= ne /\ ~Truthy(afterExact[c[p]].translation)) =>
                 dataset[c[p]].translation = src[f[p]].text
            /\ p > ne => dataset[c[p]] = afterExact[c[p]]

\* C6: with fuzzy enabled, in each (mandala, sukta) group the secondary entries,
\* ordered by known verse index ascending with the unknown ones last in input
\* order, are paired by position with the canonical records ordered by verse
\* index, for the first min(entries, records) positions: a paired record that
\* pass 1 left empty receives its entry's text, a record past that length is
\* left as pass 1 left it.
C6_SequencePairing ==
  (pc = "seq_done" /\ fuzzy) =>
    \A i \in DOMAIN orig : C6_GroupPaired(GroupOfRec(orig[i]))

C6_Witness ==
  /\ pc = "seq_done" /\ fuzzy /\ ~overwrite
  /\ Len(orig) = 2 /\ Len(src) = 2
  /\ KeyOf(orig[1]) = <<1, 1, 2>> /\ KeyOf(orig[2]) = <<1, 1, 1>>
  /\ src[1].key = <<1, 1, 0>> /\ src[2].key = <<1, 2, 1>>
  /\ afterExact = orig
  /\ dataset[2].translation = "T1" /\ src[1].text = "T1"
  /\ dataset[1] = orig[1]

AppliedBySeq(g, p) ==
  LET ds_indices == DsIndices(orig, g)
  IN /\ fuzzy
     /\ p <= Len(ds_indices)
     /\ (overwrite \/ ~Truthy(afterExact[ds_indices[p]].translation))

UnresolvedIn(g) ==
  LET entries_sorted == EntriesSorted(GroupEntries(src, g))
  IN {p \in DOMAIN entries_sorted :
        ~ExactlyMatched(entries_sorted[p]) /\ ~AppliedBySeq(g, p)}

RECURSIVE SumUnresolved(_)
SumUnresolved(groups) ==
  IF groups = <<>> THEN 0
  ELSE Card(UnresolvedIn(Head(groups))) + SumUnresolved(Tail(groups))

\* C7: the final unmatched list holds exactly the secondary entries that pass 1
\* did not resolve and, with fuzzy enabled, whose text pass 2 did not write into
\* a record; every entry of the source is accounted for.
C7_UnmatchedAccounting ==
  (pc = "reported") =>
    /\ Len(unmatched) = SumUnresolved(GroupKeys(src))
    /\ stats.final_unmatched_translation_keys = SumUnresolved(GroupKeys(src))

PopulatedByFirstRun ==
  Card({i \in DOMAIN orig : ~Truthy(prevOrig[i].translation) /\ Truthy(orig[i].translation)})

\* C8 as stated: on the second run of the same merge without overwrite,
\* skipped_existing_translations equals the number of translation fields the
\* first run populated.
C8_SkipCountAsStated ==
  (SecondRunDone /\ ~overwrite) =>
    stats.skipped_existing_translations = PopulatedByFirstRun

\* C8 (amended): on the second run, skipped_existing_translations is at least the
\* first run's skipped_existing_translations plus the number of fields the first
\* run populated, and equals that sum when fuzzy is disabled.
C8_SkipCountAmended ==
  (SecondRunDone /\ ~overwrite) =>
    /\ stats.skipped_existing_translations >=
         prevStats.skipped_existing_translations + PopulatedByFirstRun
    /\ ~fuzzy => stats.skipped_existing_translations =
                   prevStats.skipped_existing_translations + PopulatedByFirstRun

C8_Witness ==
  /\ SecondRunDone /\ ~overwrite /\ ~fuzzy
  /\ PopulatedByFirstRun = 1
  /\ prevStats.skipped_existing_translations = 1
  /\ stats.skipped_existing_translations = 2

\* --------------------------------------------------- parse_files: properties
UniqueLocators(recs) ==
  \A i, j \in DOMAIN recs : KeyOf(recs[i]) = KeyOf(recs[j]) => i = j

\* C9: no two records of the canonical set share a (mandala, sukta, verse_index)
\* triple, as parse_files writes it and after every merge run on it.
C9_UniqueLocators ==
  (pc # "raw") => (UniqueLocators(file) /\ UniqueLocators(dataset))

C9_Witness ==
  /\ pc = "idle" /\ runs = 2
  /\ Len(file) = 2
  /\ Len(input) = 2
  /\ \E a \in DOMAIN input[1].verses, b \in DOMAIN input[2].verses :
       /\ input[1].sukta = input[2].sukta
       /\ input[1].verses[a].num = input[2].verses[b].num
  /\ \E a, b \in DOMAIN input[1].verses : a # b /\ input[1].verses[a].num = input[1].verses[b].num
  /\ \E i \in DOMAIN file : Truthy(file[i].translation)

\* ---------------------------------------------------- clean_griffith_csv.py
\* A text is the sequence of its characters.  The sample alphabet is ASCII without
\* '&', so html.unescape and the dash-variant substitution leave a text as it is.
MaxRows == 3

\* score weights
LENGTH_WEIGHT == 1
LOWERCASE_RATIO_WEIGHT == 2
UPPERCASE_PENALTY == -5
NAV_PENALTY == -10
JUNK_PENALTY == -20
\* clean_dataframe(df, min_length=20, verbose=False, review_thresh=10)
REVIEW_THRESH == 10
\* gap < 5
REVIEW_GAP == 5

LowerSeq == <<"a", "b", "c", "d", "e", "f", "g", "h", "i", "j", "k", "l", "m",
              "n", "o", "p", "q", "r", "s", "t", "u", "v", "w", "x", "y", "z">>
UpperSeq == <<"A", "B", "C", "D", "E", "F", "G", "H", "I", "J", "K", "L", "M",
              "N", "O", "P", "Q", "R", "S", "T", "U", "V", "W", "X", "Y", "Z">>
LowerChars == {LowerSeq[i] : i \in DOMAIN LowerSeq}
UpperChars == {UpperSeq[i] : i \in DOMAIN UpperSeq}
DigitSet == {DigitChars[i] : i \in DOMAIN DigitChars}
SpaceChars == {" ", "\t", "\n"}
WordChars == LowerChars \cup UpperChars \cup DigitSet \cup {"_"}
PunctChars == {",", ".", ";", ":", "-"}

ToLower(c) ==
  IF c \in UpperChars THEN LowerSeq[CHOOSE i \in DOMAIN UpperSeq : UpperSeq[i] = c] ELSE c

CountIn(s, S) == Cardinality({i \in DOMAIN s : s[i] \in S})

\* w (lower case) stands at position i of s, case ignored
MatchAt(s, i, w) ==
  /\ i >= 1
  /\ i + Len(w) - 1 <= Len(s)
  /\ \A k \in DOMAIN w : ToLower(s[i + k - 1]) = w[k]

BoundaryAfter(s, j) == j > Len(s) \/ s[j] \notin WordChars

BoundaryBefore(s, i) == i = 1 \/ s[i - 1] \notin WordChars

\* re.search(r'\b(w)\b', s, re.I)
ContainsWord(s, w) ==
  \E i \in DOMAIN s :
    MatchAt(s, i, w) /\ BoundaryBefore(s, i) /\ BoundaryAfter(s, i + Len(w))

FirstNonSpace(s) ==
  IF \A i \in DOMAIN s : s[i] \in SpaceChars THEN Len(s) + 1
  ELSE CHOOSE i \in DOMAIN s : s[i] \notin SpaceChars /\ \A j \in 1..(i - 1) : s[j] \in SpaceChars

\* re.search(r'^\s*w', s, re.I), with a closing \b when bounded
StartsWith(s, w, bounded) ==
  LET i == FirstNonSpace(s)
  IN MatchAt(s, i, w) /\ (bounded => BoundaryAfter(s, i + Len(w)))

HasRun3(s, c) == \E i \in DOMAIN s : i + 2 <= Len(s) /\ s[i] = c /\ s[i + 1] = c /\ s[i + 2] = c

\* BOILERPLATE_PATTERNS that end in \b, and those that do not
BoilerBounded ==
  {<<"i", "n", "d", "e", "x">>,
   <<"c", "o", "n", "t", "e", "n", "t", "s">>,
   <<"s", "a", "c", "r", "e", "d", " ", "t", "e", "x", "t", "s">>,
   <<"h", "i", "n", "d", "u", "i", "s", "m">>,
   <<"a", "l", "l", " ", "r", "i", "g", "h", "t", "s", " ", "r", "e", "s", "e", "r", "v", "e", "d">>,
   <<"t", "a", "b", "l", "e", " ", "o", "f", " ", "c", "o", "n", "t", "e", "n", "t", "s">>,
   <<"d", "o", "w", "n", "l", "o", "a", "d", " ", "o", "p", "t", "i", "o", "n", "s">>,
   <<"f", "u", "l", "l", " ", "t", "e", "x", "t">>,
   <<"r", "e", "a", "d", " ", "o", "n", "l", "i", "n", "e">>,
   <<"v", "i", "s", "i", "t">>}

BoilerPlain ==
  {<<"n", "e", "x", "t", ":">>,
   <<"p", "r", "e", "v", "i", "o", "u", "s", ":">>,
   <<"c", "o", "p", "y", "r", "i", "g", "h", "t">>,
   <<"b", "y", " ", "r", ".", " ", "t", ".", " ", "h", ".", " ", "g", "r", "i", "f", "f", "i", "t", "h">>,
   <<"t", "r", "a", "n", "s", "l", "a", "t", "e", "d", " ", "b", "y">>,
   <<"f", "o", "r", " ", "m", "o", "r", "e">>}

\* BOILERPLATE_RE.search(s)
Boilerplate(s) ==
  \/ \E w \in BoilerBounded : StartsWith(s, w, TRUE)
  \/ \E w \in BoilerPlain : StartsWith(s, w, FALSE)
  \/ HasRun3(s, "=")
  \/ HasRun3(s, "-")

NavWords ==
  {<<"n", "e", "x", "t">>,
   <<"p", "r", "e", "v", "i", "o", "u", "s">>,
   <<"i", "n", "d", "e", "x">>,
   <<"b", "a", "c", "k">>,
   <<"f", "o", "r", "w", "a", "r", "d">>,
   <<"h", "o", "m", "e">>}

\* NAV_TOKEN_RE.search(s)
NavToken(s) == \E w \in NavWords : ContainsWord(s, w)

\* UPPERCASE_WORD_RE.search(s): five or more characters, none a lower-case letter or '_'
UppercaseWord(s) ==
  /\ Len(s) >= 5
  /\ \A i \in DOMAIN s : s[i] \notin LowerChars \cup {"_"}

JunkWords ==
  {<<"i", "n", "d", "e", "x">>,
   <<"c", "o", "n", "t", "e", "n", "t", "s">>,
   <<"p", "r", "e", "v">>,
   <<"n", "e", "x", "t">>,
   <<"s", "a", "n", "s", "k", "r", "i", "t">>,
   <<"s", "a", "n", "s", "k", "r", "i", "t", " ", "i", "n", "d", "e", "x">>}

\* HTML_TAG_RE.sub(' ', s): the leftmost '<', one or more characters other than '>', '>'
RECURSIVE StripTags(_)
StripTags(s) ==
  IF s = <<>> THEN <<>>
  ELSE IF /\ s[1] = "<"
          /\ \E j \in 3..Len(s) : s[j] = ">"
          /\ s[2] # ">"
       THEN LET j == CHOOSE k \in 3..Len(s) : s[k] = ">" /\ \A l \in 3..(k - 1) : s[l] # ">"
            IN <<" ">> \o StripTags(SubSeq(s, j + 1, Len(s)))
       ELSE <<s[1]>> \o StripTags(Tail(s))

\* MULTI_WHITESPACE_RE.sub(' ', s)
RECURSIVE Collapse(_)
Collapse(s) ==
  IF s = <<>> THEN <<>>
  ELSE IF s[1] \in SpaceChars
       THEN IF Len(s) > 1 /\ s[2] \in SpaceChars THEN Collapse(Tail(s))
            ELSE <<" ">> \o Collapse(Tail(s))
       ELSE <<s[1]>> \o Collapse(Tail(s))

RECURSIVE LStrip(_)
LStrip(s) == IF s # <<>> /\ s[1] \in SpaceChars THEN LStrip(Tail(s)) ELSE s

RECURSIVE RStrip(_)
RStrip(s) ==
  IF s # <<>> /\ s[Len(s)] \in SpaceChars THEN RStrip(SubSeq(s, 1, Len(s) - 1)) ELSE s

Strip(s) == LStrip(RStrip(s))

RECURSIVE DropWhile(_, _)
DropWhile(s, S) == IF s # <<>> /\ s[1] \in S THEN DropWhile(Tail(s), S) ELSE s

\* re.sub(r'^\s*[-*]+\s*', '', s)
StripBullets(s) ==
  LET t == LStrip(s)
  IN IF t # <<>> /\ t[1] \in {"-", "*"} THEN LStrip(DropWhile(t, {"-", "*"})) ELSE s

\* re.sub(r'^(Next:|Previous:).*$', '', s, flags=re.I).strip()
DropNavLine(s) ==
  IF MatchAt(s, 1, <<"n", "e", "x", "t", ":">>)
       \/ MatchAt(s, 1, <<"p", "r", "e", "v", "i", "o", "u", "s", ":">>)
  THEN <<>>
  ELSE Strip(s)

clean_text(s) == DropNavLine(StripBullets(Strip(Collapse(StripTags(s)))))

is_junk(s) ==
  \/ Len(s) < 3
  \/ Boilerplate(s)
  \/ (CountIn(s, LowerChars \cup UpperChars) < 2 /\ Len(s) < 40)
  \/ (NavToken(s) /\ Len(s) < 80)
  \/ \E w \in JunkWords : ContainsWord(s, w)

\* score_text(s) as the exact fraction <<numerator, denominator>>, denominator > 0:
\*   LENGTH_WEIGHT*length + LOWERCASE_RATIO_WEIGHT*(lower/letters*100)
\*     + penalties + 0.5*punct_count
score_text(s) ==
  IF s = <<>> THEN <<-9999, 1>>
  ELSE LET length == Len(s)
           letters == CountIn(s, LowerChars \cup UpperChars)
           lower == CountIn(s, LowerChars)
           den == IF letters = 0 THEN 1 ELSE letters
           penalty == (IF UppercaseWord(s) THEN UPPERCASE_PENALTY ELSE 0)
                        + (IF NavToken(s) THEN NAV_PENALTY ELSE 0)
                        + (IF Boilerplate(s) THEN JUNK_PENALTY ELSE 0)
           punct_count == CountIn(s, PunctChars)
       IN <<2 * den * LENGTH_WEIGHT * length + 2 * LOWERCASE_RATIO_WEIGHT * lower * 100
              + 2 * den * penalty + den * punct_count,
            2 * den>>

\* comparison of fractions with positive denominators
FracLess(a, b) == a[1] * b[2] < b[1] * a[2]

FracMinus(a, b) == <<a[1] * b[2] - b[1] * a[2], a[2] * b[2]>>

FracOf(n) == <<n, 1>>

\* canonical_int(v): int(float(v)) of a column value, 0 when it does not parse;
\* the column values here are digits with an optional fraction part
RECURSIVE DigitsValue(_)
DigitsValue(d) ==
  IF d = <<>> THEN 0
  ELSE 10 * DigitsValue(SubSeq(d, 1, Len(d) - 1))
         + ((CHOOSE i \in DOMAIN DigitChars : DigitChars[i] = d[Len(d)]) - 1)

canonical_int(v) ==
  LET dots == {i \in DOMAIN v : v[i] = "."}
      whole == IF dots = {} THEN v ELSE SubSeq(v, 1, (CHOOSE i \in dots : TRUE) - 1)
      frac == IF dots = {} THEN <<>> ELSE SubSeq(v, (CHOOSE i \in dots : TRUE) + 1, Len(v))
  IN IF /\ Cardinality(dots) <= 1
        /\ \A i \in DOMAIN whole : whole[i] \in DigitSet
        /\ \A i \in DOMAIN frac : frac[i] \in DigitSet
        /\ Len(whole) + Len(frac) > 0
     THEN DigitsValue(whole)
     ELSE 0

\* sample texts of the translation_text column
ProseAgni == <<"I", " ", "l", "a", "u", "d", " ", "A", "g", "n", "i", ",", " ", "t", "h", "e", " ", "c", "h", "o", "s", "e", "n", " ", "P", "r", "i", "e", "s", "t", ",", " ", "G", "o", "d", ".">>

ProseIndu == <<"I", " ", "l", "a", "u", "d", " ", "I", "n", "d", "u", ",", " ", "t", "h", "e", " ", "c", "h", "o", "s", "e", "n", " ", "P", "r", "i", "e", "s", "t", ",", " ", "G", "o", "d", ".">>

TaggedAgni == <<"<", "p", ">", "I", " ", "l", "a", "u", "d", " ", "A", "g", "n", "i", ",", " ", "t", "h", "e", " ", "c", "h", "o", "s", "e", "n", " ", "P", "r", "i", "e", "s", "t", ",", " ", "G", "o", "d", ".", "<", "/", "p", ">">>

BulletMay == <<" ", "*", " ", "M", "a", "y", " ", "A", "g", "n", "i", ",", " ", " ", "p", "r", "i", "e", "s", "t", " ", "o", "f", " ", "o", "l", "d", ",", " ", "c", "o", "m", "e", " ", "h", "i", "t", "h", "e", "r", ".">>

CapsHymn == <<"H", "Y", "M", "N", " ", "I", ".", " ", "A", "G", "N", "I", " ", "T", "H", "E", " ", "P", "R", "I", "E", "S", "T", ".">>

NextHymn == <<"N", "e", "x", "t", ":", " ", "H", "y", "m", "n", " ", "I", "I">>

BackNav == <<"B", "a", "c", "k", " ", "t", "o", " ", "t", "h", "e", " ", "h", "y", "m", "n", "s", ",", " ", "p", "i", "l", "g", "r", "i", "m", ".">>

CapsShort == <<"A", "G", "N", "I", " ", "G", "O", "D">>

RawTexts == {ProseAgni, ProseIndu, TaggedAgni, BulletMay, CapsHymn, NextHymn, BackNav, CapsShort}

\* the values of the mandala, sukta and verse_index columns
One == <<"1">>
Two == <<"2">>
OneFloat == <<"1", ".", "0">>
Blank == <<>>

RowOf(m, v, t) == [mandala |-> m, sukta |-> One, verse_index |-> v, translation_text |-> t]

RowLocators == {<<One, One>>, <<OneFloat, One>>, <<Blank, One>>, <<One, Two>>}

Rows == {RowOf(l[1], l[2], t) : l \in RowLocators, t \in RawTexts}

DataFrames == SeqsUpTo(Rows, MaxRows)

MinLengths == {3, 20}

\* clean_text, is_junk and score_text of the sample texts, computed once
CleanedOf == [t \in RawTexts |-> Strip(clean_text(t))]

CleanTexts == {CleanedOf[t] : t \in RawTexts}

\* ------------------------------------------ dedupe_and_select on two rows
\* the two candidates of one locator: a prose sentence of ProseLen characters,
\* mostly lower-case letters with ordinary punctuation, and a fragment of
\* FragmentLen characters in capitals
ProseLen == 300
FragmentLen == 15

UnitPriest == <<"a", "g", "n", "i", ",", " ", "p", "r", "i", "e", "s", "t", " ", "o", "f", " ", "o", "l", "d", ".", " ">>

UnitIndra == <<"M", "a", "y", " ", "I", "n", "d", "r", "a", " ", "c", "o", "m", "e", ";", " ">>

UnitSoma == <<"O", " ", "A", "g", "n", "i", " ", "S", "O", "M", "A", " ", "h", "e", "a", "r", ",", " ">>

UnitPlain == <<"p", "r", "a", "i", "s", "e", " ", "t", "h", "e", " ", "b", "r", "i", "g", "h", "t", " ", "g", "o", "d", " ">>

PrefixNext == <<"N", "e", "x", "t", ":", " ">>

PrefixIndex == <<"I", "n", "d", "e", "x", " ", "o", "f", " ">>

PrefixBack == <<"-", "-", "-", " ", "b", "a", "c", "k", " ", "h", "o", "m", "e", " ">>

FragGods == <<"A", "G", "N", "I", " ", "I", "N", "D", "R", "A", " ", "S", "O", "M", "A">>

FragNext == <<"N", "E", "X", "T", ":", " ", "H", "Y", "M", "N", " ", "I", "I", "I", ".">>

FragIndex == <<"I", "N", "D", "E", "X", " ", "O", "F", " ", "H", "Y", "M", "N", "S", ".">>

FragPunct == <<"A", ",", ".", ";", ":", "-", ",", ".", ";", ":", "-", ",", ".", ";", "A">>

FragRule == <<"-", "-", "-", " ", "H", "O", "M", "E", " ", "B", "A", "C", "K", " ", "-">>

RECURSIVE Repeat(_, _)
Repeat(u, n) == IF n <= 0 THEN <<>> ELSE u \o Repeat(u, n - Len(u))

\* a sentence of exactly ProseLen characters: the prefix, the unit repeated, a full stop
Prose(prefix, unit) ==
  SubSeq(prefix \o Repeat(unit, ProseLen), 1, ProseLen - 1) \o <<".">>

ProseTexts ==
  {Prose(p, u) : p \in {<<>>, PrefixNext, PrefixIndex, PrefixBack},
                 u \in {UnitPriest, UnitIndra, UnitSoma, UnitPlain}}

FragmentTexts == {FragGods, FragNext, FragIndex, FragPunct, FragRule}

PairTexts == ProseTexts \cup FragmentTexts

\* a row of rows: the locator and the text
PairRow(t) == [mandala |-> 1, sukta |-> 1, verse_index |-> 1, translation_text |-> t]

PairRows == {<<PairRow(a), PairRow(b)>> : a \in ProseTexts, b \in FragmentTexts}
              \cup {<<PairRow(b), PairRow(a)>> : a \in ProseTexts, b \in FragmentTexts}

JunkOf == [t \in CleanTexts |-> is_junk(t)]

ScoreOf == [t \in CleanTexts \cup PairTexts |-> score_text(t)]

\* lines 195-218: the candidate of a row, or the reason it is dropped
CandidateOf(row) ==
  [mandala |-> canonical_int(row.mandala), sukta |-> canonical_int(row.sukta),
   verse_index |-> canonical_int(row.verse_index),
   translation_text |-> CleanedOf[row.translation_text]]

Dropped(c, min_length) ==
  \/ c.mandala <= 0 \/ c.sukta <= 0
  \/ JunkOf[c.translation_text]
  \/ Len(c.translation_text) < min_length

RECURSIVE Candidates(_, _)
Candidates(rows, min_length) ==
  IF rows = <<>> THEN <<>>
  ELSE LET front == Candidates(SubSeq(rows, 1, Len(rows) - 1), min_length)
           c == CandidateOf(rows[Len(rows)])
       IN IF Dropped(c, min_length) THEN front ELSE Append(front, c)

CandKey(c) == <<c.mandala, c.sukta, c.verse_index>>

\* lines 220-224: the keys of groups in dict order, and the rows of a group in order
RECURSIVE CandKeys(_)
CandKeys(cand) ==
  IF cand = <<>> THEN <<>>
  ELSE LET front == CandKeys(SubSeq(cand, 1, Len(cand) - 1))
           k == CandKey(cand[Len(cand)])
       IN IF \E i \in DOMAIN front : front[i] = k THEN front ELSE Append(front, k)

RECURSIVE GroupRows(_, _)
GroupRows(cand, k) ==
  IF cand = <<>> THEN <<>>
  ELSE LET front == GroupRows(SubSeq(cand, 1, Len(cand) - 1), k)
       IN IF CandKey(cand[Len(cand)]) = k THEN Append(front, cand[Len(cand)]) ELSE front

\* an insertion that puts a row before the rows of equal score
InsertByScore_TiesLast(p, t) ==
  IF t = <<>> THEN <<p>>
  ELSE LET at == {i \in DOMAIN t : ~FracLess(p[1], t[i][1])}
       IN IF at = {} THEN Append(t, p)
          ELSE LET i == CHOOSE j \in at : \A l \in at : j <= l
               IN SubSeq(t, 1, i - 1) \o <<p>> \o SubSeq(t, i, Len(t))

\* scored.sort(key=lambda x: x[0], reverse=True): descending, rows of equal score
\* keep their order; p goes before the first row of lower score
InsertByScore(p, t) ==
  IF t = <<>> THEN <<p>>
  ELSE LET at == {i \in DOMAIN t : FracLess(t[i][1], p[1])}
       IN IF at = {} THEN Append(t, p)
          ELSE LET i == CHOOSE j \in at : \A l \in at : j <= l
               IN SubSeq(t, 1, i - 1) \o <<p>> \o SubSeq(t, i, Len(t))

RECURSIVE SortByScore(_)
SortByScore(s) ==
  IF s = <<>> THEN <<>>
  ELSE InsertByScore(s[Len(s)], SortByScore(SubSeq(s, 1, Len(s) - 1)))

\* a sort without reverse=True: the lowest score comes first
dedupe_and_select_Ascending(rows) ==
  LET scored == SortByScore([i \in DOMAIN rows |-> <<ScoreOf[rows[i].translation_text], rows[i]>>])
      n == Len(scored)
  IN [best |-> scored[n][2],
      others |-> [i \in 1..(n - 1) |-> scored[n - i][2]],
      best_score |-> scored[n][1]]

\* dedupe_and_select(rows): [best, others, best_score]
dedupe_and_select(rows) ==
  LET scored == SortByScore([i \in DOMAIN rows |-> <<ScoreOf[rows[i].translation_text], rows[i]>>])
  IN [best |-> scored[1][2],
      others |-> [i \in 1..(Len(scored) - 1) |-> scored[i + 1][2]],
      best_score |-> scored[1][1]]

RECURSIVE FracMax(_)
FracMax(s) ==
  IF Len(s) = 1 THEN s[1]
  ELSE LET m == FracMax(Tail(s)) IN IF FracLess(s[1], m) THEN m ELSE s[1]

ReviewRow(r) ==
  [mandala |-> r.mandala, sukta |-> r.sukta, verse_index |-> r.verse_index,
   translation_text |-> r.translation_text, score |-> ScoreOf[r.translation_text]]

\* lines 228-252, the body of "for key, rows in groups.items()"; out is
\* [cleaned_rows, review_rows, stats]
CleanGroup(out, rows) ==
  IF Len(rows) = 1
  THEN [out EXCEPT !.cleaned_rows = Append(@, rows[1]), !.stats.kept = @ + 1]
  ELSE LET sel == dedupe_and_select(rows)
           others_scores == [i \in DOMAIN sel.others |-> ScoreOf[sel.others[i].translation_text]]
           gap == IF others_scores # <<>> THEN FracMinus(sel.best_score, FracMax(others_scores))
                  ELSE sel.best_score
           ambiguous == FracLess(sel.best_score, FracOf(REVIEW_THRESH)) \/ FracLess(gap, FracOf(REVIEW_GAP))
       IN [out EXCEPT
             !.cleaned_rows = Append(@, sel.best),
             !.stats.kept = @ + 1,
             !.stats.ambiguous_groups = IF ambiguous THEN @ + 1 ELSE @,
             !.review_rows = IF ambiguous THEN @ \o [i \in DOMAIN rows |-> ReviewRow(rows[i])] ELSE @]

RECURSIVE CleanGroups(_, _, _)
CleanGroups(out, keys, cand) ==
  IF keys = <<>> THEN out
  ELSE CleanGroups(CleanGroup(out, GroupRows(cand, Head(keys))), Tail(keys), cand)

\* clean_dataframe(df, min_length)
clean_dataframe(rows, min_length) ==
  LET cand == Candidates(rows, min_length)
      keys == CandKeys(cand)
      start == [cleaned_rows |-> <<>>, review_rows |-> <<>>,
                stats |-> [total_rows |-> Len(rows),
                           dropped_junk |-> Len(rows) - Len(cand),
                           kept |-> 0,
                           dedup_groups |-> Len(keys),
                           ambiguous_groups |-> 0]]
  IN CleanGroups(start, keys, cand)

CleanRun ==
  /\ pc = "clean_start"
  /\ LET out == clean_dataframe(df, minLength)
     IN /\ cleaned' = out.cleaned_rows
        /\ review' = out.review_rows
        /\ cleanStats' = out.stats
  /\ pc' = "clean_done"
  /\ UNCHANGED <<file, mergeVars, runs, parseVars, df, minLength, segVars, subVars, romanVars, crawlVars, headVars>>

InitClean ==
  /\ file = <<>>
  /\ pc = "clean_start"
  /\ MergeIdle
  /\ SegIdle
  /\ SubIdle
  /\ RomanIdle
  /\ CrawlIdle
  /\ HeadIdle
  /\ ParseIdle
  /\ df \in DataFrames
  /\ minLength \in MinLengths
  /\ cleaned = <<>>
  /\ review = <<>>
  /\ cleanStats = NoCleanStats

NextClean == CleanRun

SpecClean == InitClean /\ [][NextClean]_vars

\* ------------------------------------------------ clean_dataframe: properties
\* the rows of df that survive the drop rules, as positions of df
Survivors == {i \in DOMAIN df : ~Dropped(CandidateOf(df[i]), minLength)}

LocatorOfRow(i) == CandKey(CandidateOf(df[i]))

TextOfRow(i) == CandidateOf(df[i]).translation_text

SameLocator(i) == {j \in Survivors : LocatorOfRow(j) = LocatorOfRow(i)}

\* C10: for every locator with at least one surviving candidate the cleaned
\* output holds exactly one row, a candidate of the highest score_text, and among
\* candidates of equal highest score the one that came first in the input.
C10_Winner ==
  (pc = "clean_done") =>
    /\ \A i \in Survivors :
         LET rivals == SameLocator(i)
             top == {j \in rivals : \A l \in rivals : ~FracLess(ScoreOf[TextOfRow(j)], ScoreOf[TextOfRow(l)])}
             first == CHOOSE j \in top : \A l \in top : j <= l
             kept == {k \in DOMAIN cleaned : CandKey(cleaned[k]) = LocatorOfRow(i)}
         IN /\ Cardinality(kept) = 1
            /\ \A k \in kept : cleaned[k].translation_text = TextOfRow(first)
    /\ \A k \in DOMAIN cleaned : \E i \in Survivors : CandKey(cleaned[k]) = LocatorOfRow(i)

C10_Witness ==
  /\ pc = "clean_done"
  /\ Len(df) = 2
  /\ Survivors = {1, 2}
  /\ LocatorOfRow(1) = LocatorOfRow(2)
  /\ df[1].mandala # df[2].mandala
  /\ ScoreOf[TextOfRow(1)] = ScoreOf[TextOfRow(2)]
  /\ TextOfRow(1) # TextOfRow(2)
  /\ Len(cleaned) = 1
  /\ cleaned[1].translation_text = TextOfRow(1)

\* the winner of the locator of row i: the first candidate of the highest score
WinnerOf(i) ==
  LET rivals == SameLocator(i)
      top == {j \in rivals : \A l \in rivals : ~FracLess(ScoreOf[TextOfRow(j)], ScoreOf[TextOfRow(l)])}
  IN CHOOSE j \in top : \A l \in top : j <= l

\* the rows of the review output that show candidate j
ReviewedAs(j) ==
  {k \in DOMAIN review : /\ <<review[k].mandala, review[k].sukta, review[k].verse_index>> = LocatorOfRow(j)
                         /\ review[k].translation_text = TextOfRow(j)}

\* the score of the best candidate among the rivals of i other than the winner
RunnerUpScore(i) ==
  LET rest == SameLocator(i) \ {WinnerOf(i)}
      top == CHOOSE j \in rest : \A l \in rest : ~FracLess(ScoreOf[TextOfRow(j)], ScoreOf[TextOfRow(l)])
  IN ScoreOf[TextOfRow(top)]

BelowFloor(i) == FracLess(ScoreOf[TextOfRow(WinnerOf(i))], FracOf(REVIEW_THRESH))

GapBelowMargin(i) ==
  /\ Cardinality(SameLocator(i)) > 1
  /\ FracLess(FracMinus(ScoreOf[TextOfRow(WinnerOf(i))], RunnerUpScore(i)), FracOf(REVIEW_GAP))

\* C11: for every locator with more than one candidate, every candidate that
\* is not the winner appears in the review output, also when the winner's score
\* is high and its gap to the runner-up is large.
C11_LosersReviewed ==
  (pc = "clean_done") =>
    \A i \in Survivors :
      \A j \in SameLocator(i) \ {WinnerOf(i)} : ReviewedAs(j) # {}

\* the locators of the surviving candidates
SurvivorLocators == {LocatorOfRow(i) : i \in Survivors}

\* C12: every locator of the input whose winner scores below the floor, or
\* whose winner is less than the margin ahead of the runner-up, is counted in
\* ambiguous_groups and has all of its candidates, the winner included, in the
\* review output.
C12_AmbiguousFlagged ==
  (pc = "clean_done") =>
    /\ \A i \in Survivors :
         (BelowFloor(i) \/ GapBelowMargin(i)) =>
           \A j \in SameLocator(i) : ReviewedAs(j) # {}
    /\ cleanStats.ambiguous_groups =
         Cardinality({k \in SurvivorLocators :
                        \E i \in Survivors : /\ LocatorOfRow(i) = k
                                             /\ (BelowFloor(i) \/ GapBelowMargin(i))})

\* ------------------------------------------- griffith_plain_to_csv_v2.py
\* A line and a paragraph are sequences of characters, over the same alphabet as
\* above, so html.unescape and the NFC normalisation leave a text as it is.
MaxParas == 4

RomanChars == {"I", "V", "X", "L", "C", "D", "M"}

RomanCharsAnyCase == RomanChars \cup {"i", "v", "x", "l", "c", "d", "m"}

ToUpper(c) ==
  IF c \in LowerChars THEN UpperSeq[CHOOSE i \in DOMAIN LowerSeq : LowerSeq[i] = c] ELSE c

\* " ".join(buf).strip()
RECURSIVE JoinLines(_)
JoinLines(buf) ==
  IF buf = <<>> THEN <<>>
  ELSE IF Len(buf) = 1 THEN buf[1]
  ELSE buf[1] \o <<" ">> \o JoinLines(Tail(buf))

\* split_paragraphs(lines): the loop over lines with its buffer, then the last flush
RECURSIVE SplitLoop(_, _, _)
SplitLoop(ls, buf, ps) ==
  IF ls = <<>>
  THEN IF buf # <<>> THEN Append(ps, Strip(JoinLines(buf))) ELSE ps
  ELSE LET s == Strip(Head(ls))
       IN IF s = <<>>
          THEN IF buf # <<>> THEN SplitLoop(Tail(ls), <<>>, Append(ps, Strip(JoinLines(buf))))
               ELSE SplitLoop(Tail(ls), buf, ps)
          ELSE SplitLoop(Tail(ls), Append(buf, s), ps)

split_paragraphs(ls) == SplitLoop(ls, <<>>, <<>>)

\* normalize_line(s): tags to a blank, whitespace collapsed, stripped
normalize_line(s) == Strip(Collapse(StripTags(s)))

\* w (lower case) occurs somewhere in s, case ignored
ContainsPhrase(s, w) == \E i \in DOMAIN s : MatchAt(s, i, w)

BOILERPLATE_PHRASES ==
  {<<"s", "a", "c", "r", "e", "d", " ", "t", "e", "x", "t", "s">>,
   <<"n", "e", "x", "t", ":">>,
   <<"p", "r", "e", "v", "i", "o", "u", "s", ":">>,
   <<"t", "a", "b", "l", "e", " ", "o", "f", " ", "c", "o", "n", "t", "e", "n", "t", "s">>,
   <<"i", "n", "d", "e", "x">>,
   <<"s", "a", "n", "s", "k", "r", "i", "t">>,
   <<"a", "l", "l", " ", "r", "i", "g", "h", "t", "s", " ", "r", "e", "s", "e", "r", "v", "e", "d">>,
   <<"f", "u", "l", "l", " ", "t", "e", "x", "t">>,
   <<"d", "o", "w", "n", "l", "o", "a", "d", " ", "o", "p", "t", "i", "o", "n", "s">>,
   <<"r", "e", "a", "d", " ", "o", "n", "l", "i", "n", "e">>,
   <<"t", "r", "a", "n", "s", "l", "a", "t", "e", "d", " ", "b", "y">>,
   <<"b", "y", " ", "r", ".", " ", "t", ".", " ", "h", ".", " ", "g", "r", "i", "f", "f", "i", "t", "h">>}

\* the end of the whitespace that starts at position i of s
RECURSIVE SkipSpaces(_, _)
SkipSpaces(s, i) == IF i <= Len(s) /\ s[i] \in SpaceChars THEN SkipSpaces(s, i + 1) ELSE i

\* the character U+2014 (em dash), written as a symbol of its own
EmDash == "emdash"

\* the phrase of an em dash, whitespace and HYMN
DashHymn(s) ==
  \E i \in DOMAIN s : s[i] = EmDash /\ MatchAt(s, SkipSpaces(s, i + 1), <<"h", "y", "m", "n">>)

\* BOILERPLATE_RE.search(line) of griffith_plain_to_csv_v2
PhraseBoilerplate(s) == (\E w \in BOILERPLATE_PHRASES : ContainsPhrase(s, w)) \/ DashHymn(s)

JunkNavWords ==
  {<<"n", "e", "x", "t">>,
   <<"p", "r", "e", "v", "i", "o", "u", "s">>,
   <<"i", "n", "d", "e", "x">>,
   <<"c", "o", "n", "t", "e", "n", "t", "s">>,
   <<"b", "a", "c", "k">>}

\* looks_like_junk without the test of the boilerplate phrases
looks_like_junk_NoPhrases(line) ==
  \/ line = <<>>
  \/ (CountIn(line, LowerChars \cup UpperChars) < 3 /\ Len(line) < 40)
  \/ (Len(line) < 60 /\ \E w \in JunkNavWords : ContainsWord(line, w))

\* looks_like_junk(line), lines 61-73
looks_like_junk(line) ==
  \/ line = <<>>
  \/ PhraseBoilerplate(line)
  \/ (CountIn(line, LowerChars \cup UpperChars) < 3 /\ Len(line) < 40)
  \/ (Len(line) < 60 /\ \E w \in JunkNavWords : ContainsWord(line, w))

RomanValue(ch) ==
  CASE ch = "I" -> 1 [] ch = "V" -> 5 [] ch = "X" -> 10 [] ch = "L" -> 50
    [] ch = "C" -> 100 [] ch = "D" -> 500 [] ch = "M" -> 1000 [] OTHER -> 0

\* the loop of roman_to_int over reversed(r): k symbols from the right are done
RECURSIVE RomanLoop(_, _, _, _)
RomanLoop(r, k, total, prev) ==
  IF k = Len(r) THEN total
  ELSE LET v == RomanValue(r[Len(r) - k])
       IN RomanLoop(r, k + 1, IF v < prev THEN total - v ELSE total + v, v)

\* the sum of the symbol values, nothing subtracted
RECURSIVE RomanSum(_)
RomanSum(r) == IF r = <<>> THEN 0 ELSE RomanValue(Head(r)) + RomanSum(Tail(r))

roman_to_int_Additive(r) == RomanSum([i \in DOMAIN r |-> ToUpper(r[i])])

\* roman_to_int(r), lines 75-86
roman_to_int(r) == RomanLoop([i \in DOMAIN r |-> ToUpper(r[i])], 0, 0, 0)

\* ROMAN_ONLY.match(tok)
ROMAN_ONLY(tok) == tok # <<>> /\ \A i \in DOMAIN tok : tok[i] \in RomanCharsAnyCase

\* the end (exclusive) of the run of characters of S that starts at position i of s
RECURSIVE RunEnd(_, _, _)
RunEnd(s, i, S) == IF i <= Len(s) /\ s[i] \in S THEN RunEnd(s, i + 1, S) ELSE i

\* the group ([IVXLCDM]+|\d+) matched at position i of s: the longest run
TokenAt(s, i, roman) ==
  IF i <= Len(s) /\ s[i] \in roman THEN SubSeq(s, i, RunEnd(s, i, roman) - 1)
  ELSE SubSeq(s, i, RunEnd(s, i, DigitSet) - 1)

\* '.*?([IVXLCDM]+|\d+)' from position i of s on: the token at the first
\* position that starts one, <<>> when there is none
FirstTokenFrom(s, i, roman) ==
  LET at == {j \in i..Len(s) : s[j] \in roman \cup DigitSet}
  IN IF at = {} THEN <<>>
     ELSE TokenAt(s, CHOOSE j \in at : \A l \in at : j <= l, roman)

\* int(tok) of a token, or roman_to_int of one that ROMAN_ONLY matches
TokenValue(tok) == IF ROMAN_ONLY(tok) THEN roman_to_int(tok) ELSE DigitsValue(tok)

None == -1

\* the position after 'RIG[-\s]?VEDA\s+BOOK' at position i of s, 0 when it does not match
RigVedaBookEnd(s, i) ==
  IF ~MatchAt(s, i, <<"r", "i", "g">>) THEN 0
  ELSE LET j == IF i + 3 <= Len(s) /\ s[i + 3] \in SpaceChars \cup {"-"} /\ MatchAt(s, i + 4, <<"v", "e", "d", "a">>)
                 THEN i + 4 ELSE i + 3
       IN IF ~MatchAt(s, j, <<"v", "e", "d", "a">>) THEN 0
          ELSE LET k == SkipSpaces(s, j + 4)
               IN IF k > j + 4 /\ MatchAt(s, k, <<"b", "o", "o", "k">>) THEN k + 4 ELSE 0

\* the position after the keyword of MANDALA_RE, 0 when none stands at the start
MandalaKeywordEnd(s) ==
  LET i == FirstNonSpace(s)
      rig == RigVedaBookEnd(s, i)
  IN IF rig # 0 /\ BoundaryAfter(s, rig) THEN rig
     ELSE IF MatchAt(s, i, <<"b", "o", "o", "k">>) /\ BoundaryAfter(s, i + 4) THEN i + 4
     ELSE IF MatchAt(s, i, <<"m", "a", "n", "d", "a", "l", "a">>) /\ BoundaryAfter(s, i + 7) THEN i + 7
     ELSE 0

\* detect_mandala_token(line): the number, or None
detect_mandala_token(line) ==
  LET e == MandalaKeywordEnd(line)
      tok == IF e = 0 THEN <<>> ELSE FirstTokenFrom(line, e, RomanCharsAnyCase)
  IN IF tok = <<>> THEN None ELSE TokenValue(tok)

\* detect_hymn_token(line): HYMN_ALT_RE first, then HYMN_RE
detect_hymn_token(line) ==
  LET i == FirstNonSpace(line)
      hymn == MatchAt(line, i, <<"h", "y", "m", "n">>)
      j == SkipSpaces(line, i + 4)
      alt == IF hymn /\ j > i + 4 THEN TokenAt(line, j, RomanCharsAnyCase) ELSE <<>>
      tok == IF hymn /\ BoundaryAfter(line, i + 4)
             THEN FirstTokenFrom(line, i + 4, RomanCharsAnyCase) ELSE <<>>
  IN IF alt # <<>> /\ BoundaryAfter(line, j + Len(alt)) THEN TokenValue(alt)
     ELSE IF tok # <<>> THEN TokenValue(tok)
     ELSE None

\* re.split(r'\n+', p), the empty pieces dropped and the others stripped
RECURSIVE SplitNewlines(_, _, _)
SplitNewlines(s, cur, out) ==
  IF s = <<>> THEN (IF Strip(cur) # <<>> THEN Append(out, Strip(cur)) ELSE out)
  ELSE IF Head(s) = "\n"
       THEN SplitNewlines(Tail(s), <<>>, IF Strip(cur) # <<>> THEN Append(out, Strip(cur)) ELSE out)
       ELSE SplitNewlines(Tail(s), Append(cur, Head(s)), out)

\* VERSE_RE.match(pl): [tok |-> group 1, rest |-> group 2], tok = <<>> when no match
VERSE_RE(pl) ==
  LET i0 == SkipSpaces(pl, 1)
      i1 == IF i0 <= Len(pl) /\ pl[i0] = "(" THEN i0 + 1 ELSE i0
      i2 == SkipSpaces(pl, i1)
      i3 == IF i2 <= Len(pl) /\ pl[i2] \in DigitSet THEN RunEnd(pl, i2, DigitSet)
            ELSE RunEnd(pl, i2, RomanChars)
      i4 == SkipSpaces(pl, i3)
      i5 == IF i4 <= Len(pl) /\ pl[i4] = ")" THEN i4 + 1 ELSE i4
      i6 == SkipSpaces(pl, i5)
      i7 == IF i6 <= Len(pl) /\ pl[i6] \in {".", "-", EmDash, ":", ")"}
            THEN SkipSpaces(pl, i6 + 1) ELSE i6
  IN [tok |-> SubSeq(pl, i2, i3 - 1), rest |-> SubSeq(pl, i7, Len(pl))]

\* lines 193-200: the number of a marker, None when int() raises
NumVal(num_tok, roman_allowed) ==
  IF ROMAN_ONLY(num_tok) /\ roman_allowed THEN roman_to_int(num_tok)
  ELSE IF \A i \in DOMAIN num_tok : num_tok[i] \in DigitSet THEN DigitsValue(num_tok)
  ELSE None

EntryAt(st, v, text) ==
  [mandala |-> st.current_mandala, sukta |-> st.current_sukta, verse_index |-> v,
   translation_text |-> text]

\* lines 188-215, the body of "for pl in para_lines"; m is VERSE_RE.match(pl) and
\* st carries explicit_found too
MarkerLine(st, pl, m, min_length, roman_allowed) ==
  LET rest == Strip(m.rest)
      num_val == NumVal(m.tok, roman_allowed)
  IN IF m.tok = <<>> \/ num_val = None THEN st
     ELSE IF rest # <<>> /\ Len(rest) >= min_length
     THEN [st EXCEPT !.explicit_found = TRUE, !.verse_counter = num_val,
                     !.entries = Append(@, EntryAt(st, num_val, rest))]
     ELSE [st EXCEPT !.explicit_found = TRUE, !.verse_counter = num_val,
                     !.entries = IF Len(pl) >= min_length
                                 THEN Append(@, EntryAt(st, num_val, pl)) ELSE @]

RECURSIVE MarkerLines(_, _, _, _, _)
MarkerLines(st, pls, ms, min_length, roman_allowed) ==
  IF pls = <<>> THEN st
  ELSE MarkerLines(MarkerLine(st, Head(pls), Head(ms), min_length, roman_allowed),
                   Tail(pls), Tail(ms), min_length, roman_allowed)

Falsy(tok) == tok = None \/ tok = 0

\* what lines 157-189 compute from the paragraph alone
Analyse(p) ==
  LET ln == normalize_line(p)
      pls == SplitNewlines(p, <<>>, <<>>)
  IN [ln |-> ln,
      junk |-> looks_like_junk(ln),
      mand_tok |-> detect_mandala_token(ln),
      hymn_tok |-> detect_hymn_token(ln),
      para_lines |-> pls,
      matches |-> [i \in DOMAIN pls |-> VERSE_RE(pls[i])]]

\* sample lines of the plain-text translation
BookLine == <<"B", "O", "O", "K", " ", "I">>

HymnLine == <<"H", "Y", "M", "N", " ", "I", "I", ".", " ", "A", "g", "n", "i", ".">>

AgniLine == <<"A", "g", "n", "i", ",", " ", "p", "r", "i", "e", "s", "t", " ", "o", "f", " ", "o", "l", "d", ".">>

IndraLine == <<"I", "n", "d", "r", "a", ",", " ", "c", "h", "o", "s", "e", "n", " ", "P", "r", "i", "e", "s", "t", ".">>

VarunaLine == <<"V", "a", "r", "u", "n", "a", ",", " ", "h", "e", "a", "r", " ", "u", "s", ".">>

Verse1Line == <<"1", ".", " ", "I", " ", "l", "a", "u", "d", " ", "A", "g", "n", "i", ",", " ", "t", "h", "e", " ", "P", "r", "i", "e", "s", "t", ".">>

Verse2Line == <<"2", ".", " ", "H", "a", "i", "l">>

TranslatedLine == <<"T", "r", "a", "n", "s", "l", "a", "t", "e", "d", " ", "b", "y", " ", "R", ".", " ", "G", "r", "i", "f", "f", "i", "t", "h", ".">>

BlankLine == <<" ">>

SampleLines ==
  {BookLine, HymnLine, NextHymn, TranslatedLine, AgniLine, IndraLine, VarunaLine, Verse1Line, Verse2Line}

\* a block is a run of non-blank lines; blocks are separated by a blank line
Blocks == {<<l>> : l \in SampleLines} \cup {<<Verse1Line, Verse2Line>>}

RECURSIVE LinesOf(_)
LinesOf(blocks) ==
  IF blocks = <<>> THEN <<>>
  ELSE IF Len(blocks) = 1 THEN blocks[1]
  ELSE blocks[1] \o <<BlankLine>> \o LinesOf(Tail(blocks))

InputTexts == {LinesOf(b) : b \in SeqsUpTo(Blocks, MaxParas)}

SegMinLengths == {5, 10}

\* the paragraphs of the sample texts and what Analyse gives for each, computed once
SampleParagraphs == {Strip(JoinLines(b)) : b \in Blocks}

AnalysisOf == [p \in SampleParagraphs |-> Analyse(p)]

\* lines 156-225, the body of "for i, p in enumerate(paras)"; st is
\* [current_mandala, current_sukta, verse_counter, entries]
ParagraphOf(st, p, min_length, roman_allowed) ==
  LET a == AnalysisOf[p]
      start == [current_mandala |-> st.current_mandala, current_sukta |-> st.current_sukta,
                verse_counter |-> st.verse_counter, entries |-> st.entries,
                explicit_found |-> FALSE]
      marked == MarkerLines(start, a.para_lines, a.matches, min_length, roman_allowed)
  IN IF a.ln = <<>> \/ a.junk THEN st
     ELSE IF ~Falsy(a.mand_tok)
     THEN [st EXCEPT !.current_mandala = a.mand_tok, !.current_sukta = 0, !.verse_counter = 0]
     ELSE IF ~Falsy(a.hymn_tok)
     THEN [st EXCEPT !.current_sukta = a.hymn_tok, !.verse_counter = 0]
     ELSE IF marked.explicit_found
     THEN [st EXCEPT !.verse_counter = marked.verse_counter, !.entries = marked.entries]
     ELSE [st EXCEPT !.verse_counter = @ + 1,
                     !.entries = IF Len(a.ln) >= min_length
                                 THEN Append(@, EntryAt(st, st.verse_counter + 1, a.ln)) ELSE @]

\* parse_file, line 152
SplitParagraphs ==
  /\ pc = "seg_start"
  /\ paras' = split_paragraphs(lines)
  /\ pc' = "seg_loop"
  /\ UNCHANGED <<file, mergeVars, runs, parseVars, cleanVars, subVars, romanVars, crawlVars, lines, segMinLength, allow_roman,
                 para, current_mandala, current_sukta, verse_counter, segEntries, headVars>>

\* parse_file, lines 156-225: one pass of the loop over paras
Paragraph ==
  /\ pc = "seg_loop"
  /\ para < Len(paras)
  /\ \E st \in {ParagraphOf([current_mandala |-> current_mandala, current_sukta |-> current_sukta,
                              verse_counter |-> verse_counter, entries |-> segEntries],
                             paras[para + 1], segMinLength, allow_roman)} :
        /\ current_mandala' = st.current_mandala
        /\ current_sukta' = st.current_sukta
        /\ verse_counter' = st.verse_counter
        /\ segEntries' = st.entries
  /\ para' = para + 1
  /\ UNCHANGED <<file, pc, mergeVars, runs, parseVars, cleanVars, subVars, romanVars, crawlVars, lines, segMinLength,
                 allow_roman, paras, headVars>>

\* parse_file, line 226
ReturnEntries ==
  /\ pc = "seg_loop"
  /\ para = Len(paras)
  /\ pc' = "seg_done"
  /\ UNCHANGED <<file, mergeVars, runs, parseVars, cleanVars, segVars, subVars, romanVars, crawlVars, headVars>>

InitSegment ==
  /\ file = <<>>
  /\ pc = "seg_start"
  /\ MergeIdle
  /\ ParseIdle
  /\ CleanIdle
  /\ SubIdle
  /\ RomanIdle
  /\ CrawlIdle
  /\ HeadIdle
  /\ lines \in InputTexts
  /\ segMinLength \in SegMinLengths
  /\ allow_roman \in BOOLEAN
  /\ paras = <<>>
  /\ para = 0
  /\ current_mandala = 0
  /\ current_sukta = 0
  /\ verse_counter = 0
  /\ segEntries = <<>>

NextSegment == SplitParagraphs \/ Paragraph \/ ReturnEntries

SpecSegment == InitSegment /\ [][NextSegment]_vars

\* parse_file of the plain text and clean_dataframe of a CSV, either program run
InitBoilerplate == InitSegment \/ InitClean

NextBoilerplate == SplitParagraphs \/ Paragraph \/ ReturnEntries \/ CleanRun

SpecBoilerplate == InitBoilerplate /\ [][NextBoilerplate]_vars

\* ------------------------------------------- boilerplate rejection: properties
\* the sample paragraphs whose normalised text matches a boilerplate phrase
BoilerParagraphs == {p \in SampleParagraphs : PhraseBoilerplate(normalize_line(p))}

\* looks_like_junk of the paragraphs that match a boilerplate phrase
BoilerParagraphsJunk == \A p \in BoilerParagraphs : looks_like_junk(normalize_line(p))

\* BOILERPLATE_RE.search of the cleaned sample texts, computed once
BoilerOf == [t \in CleanTexts |-> Boilerplate(t)]

\* the rows of df whose text is "Next: Hymn II" or, cleaned, matches a boilerplate pattern
BoilerRows ==
  {i \in DOMAIN df : \/ df[i].translation_text = NextHymn
                     \/ BoilerOf[CleanedOf[df[i].translation_text]]}

C13_JunkForEveryLength ==
  /\ NextHymn \in BoilerParagraphs
  /\ BoilerParagraphsJunk
  /\ \A i \in BoilerRows : JunkOf[CleanedOf[df[i].translation_text]]

C13_NoRow ==
  (pc = "clean_done") =>
    /\ \A i \in BoilerRows :
         /\ \A k \in DOMAIN cleaned : cleaned[k].translation_text # CleanedOf[df[i].translation_text]
         /\ \A k \in DOMAIN review : review[k].translation_text # CleanedOf[df[i].translation_text]
    /\ cleanStats.dropped_junk >= Cardinality(BoilerRows)
    /\ Len(cleaned) <= Len(df) - Cardinality(BoilerRows)

C13_TrackerStep ==
  (/\ pc = "seg_loop"
   /\ para < Len(paras)
   /\ para' = para + 1
   /\ paras[para + 1] \in BoilerParagraphs)
    => UNCHANGED <<current_mandala, current_sukta, verse_counter, segEntries>>

\* C13: a paragraph or row whose text is "Next: Hymn II", or matches a
\* boilerplate phrase, is junk for every min_length, gives no candidate in parse_file
\* and no row in clean_dataframe's output, and leaves the tracker's current
\* mandala, sukta and verse counter as they were.
C13_BoilerplateRejected ==
  /\ [](C13_JunkForEveryLength /\ C13_NoRow)
  /\ [][C13_TrackerStep]_vars

C13_Witness ==
  /\ pc = "seg_loop"
  /\ para = 4
  /\ paras[4] = NextHymn
  /\ segMinLength = 5
  /\ current_mandala = 1
  /\ current_sukta = 2
  /\ verse_counter = 1
  /\ Len(segEntries) = 1

\* ------------------------------------- parse_translit_html_refined.py
\* parse_html_grouping; extract_translations_from_html of parse_and_align_griffith.py
\* and build_translations_map of parse_griffith_from_folder.py group and sort the
\* same way and join with " " instead of " | ".
\* A block is the sequence of its VERSE_ID_RE matches, each with the cleaned
\* segment that follows it.
MaxFragments == 3

FragmentOf(k, sfx, seg) == [key |-> k, suffix |-> sfx, segment |-> seg]

Fragments ==
  {FragmentOf(<<1, 1, 1>>, "", "alpha"), FragmentOf(<<1, 1, 1>>, "a", "alph2"),
   FragmentOf(<<1, 1, 1>>, "b", "beta"), FragmentOf(<<1, 1, 1>>, "a", ""),
   FragmentOf(<<1, 1, 2>>, "", "gamma")}

\* the blocks of a document: its fragments in order, a blank line after the
\* fragments whose position is in breaks
RECURSIVE BlocksOf(_, _, _, _)
BlocksOf(frags, breaks, i, cur) ==
  IF i > Len(frags) THEN (IF cur = <<>> THEN <<>> ELSE <<cur>>)
  ELSE IF i \in breaks
       THEN <<Append(cur, frags[i])>> \o BlocksOf(frags, breaks, i + 1, <<>>)
       ELSE BlocksOf(frags, breaks, i + 1, Append(cur, frags[i]))

Documents ==
  {BlocksOf(f, b, 1, <<>>) : f \in SeqsUpTo(Fragments, MaxFragments),
                             b \in SUBSET (1..(MaxFragments - 1))}

\* grouped[key].append((suffix, segment, b_idx)) on a dict in insertion order
AppendSeg(g, k, seg) ==
  IF \E i \in DOMAIN g : g[i].key = k
  THEN [i \in DOMAIN g |-> IF g[i].key = k THEN [g[i] EXCEPT !.segs = Append(@, seg)] ELSE g[i]]
  ELSE Append(g, [key |-> k, segs |-> <<seg>>])

\* lines 68-80, the loop over the matches of block number idx
RECURSIVE GroupMatches(_, _, _)
GroupMatches(g, block, idx) ==
  IF block = <<>> THEN g
  ELSE GroupMatches(AppendSeg(g, Head(block).key, <<Head(block).suffix, Head(block).segment, idx>>),
                    Tail(block), idx)

\* the code points of the characters the sort key compares
Ord(c) == CASE c = " " -> 32 [] c = "a" -> 97 [] c = "b" -> 98 [] c = "c" -> 99

\* a sort key that puts the empty suffix after the letters
SuffixKey_EmptyLast(x) == <<x[3], IF x[1] = "" THEN 123 ELSE Ord(x[1])>>

\* the sort key of a segment: (x[2], x[0] if x[0] != "" else " ")
SuffixKey(x) == <<x[3], Ord(IF x[1] # "" THEN x[1] ELSE " ")>>

KeyLess(a, b) == a[1] < b[1] \/ (a[1] = b[1] /\ a[2] < b[2])

\* sorted(segs, key=...): stable
RECURSIVE SortSegs(_)
SortSegs(segs) ==
  IF segs = <<>> THEN <<>>
  ELSE LET front == SortSegs(SubSeq(segs, 1, Len(segs) - 1))
           x == segs[Len(segs)]
           after == {i \in DOMAIN front : KeyLess(SuffixKey(x), SuffixKey(front[i]))}
       IN IF after = {} THEN Append(front, x)
          ELSE LET i == CHOOSE j \in after : \A l \in after : j <= l
               IN SubSeq(front, 1, i - 1) \o <<x>> \o SubSeq(front, i, Len(front))

\* [s[1] for s in segs_sorted if s[1]]
RECURSIVE NonEmptySegments(_)
NonEmptySegments(segs) ==
  IF segs = <<>> THEN <<>>
  ELSE IF Head(segs)[2] # "" THEN <<Head(segs)[2]>> \o NonEmptySegments(Tail(segs))
  ELSE NonEmptySegments(Tail(segs))

\* " | ".join(parts), as the sequence of the parts and the delimiters between them
RECURSIVE JoinWith(_, _)
JoinWith(parts, delim) ==
  IF parts = <<>> THEN <<>>
  ELSE IF Len(parts) = 1 THEN parts
  ELSE <<parts[1], delim>> \o JoinWith(Tail(parts), delim)

EntryOfGroup(g) ==
  [mandala |-> g.key[1], sukta |-> g.key[2], verse |-> g.key[3],
   transliteration |-> JoinWith(NonEmptySegments(SortSegs(g.segs)), " | ")]

TripleLess(a, b) ==
  \/ a[1] < b[1]
  \/ a[1] = b[1] /\ a[2] < b[2]
  \/ a[1] = b[1] /\ a[2] = b[2] /\ a[3] < b[3]

\* entries.sort(key=lambda e: (e["mandala"], e["sukta"], e["verse"]))
RECURSIVE SortEntries(_)
SortEntries(es) ==
  IF es = <<>> THEN <<>>
  ELSE LET front == SortEntries(SubSeq(es, 1, Len(es) - 1))
           x == es[Len(es)]
           k(e) == <<e.mandala, e.sukta, e.verse>>
           after == {i \in DOMAIN front : TripleLess(k(x), k(front[i]))}
       IN IF after = {} THEN Append(front, x)
          ELSE LET i == CHOOSE j \in after : \A l \in after : j <= l
               IN SubSeq(front, 1, i - 1) \o <<x>> \o SubSeq(front, i, Len(front))

\* parse_html_grouping, lines 61-80: one pass of the loop over blocks
GroupBlock ==
  /\ pc = "sub_group"
  /\ b_idx < Len(svBlocks)
  /\ grouped' = GroupMatches(grouped, svBlocks[b_idx + 1], b_idx)
  /\ b_idx' = b_idx + 1
  /\ UNCHANGED <<file, pc, mergeVars, runs, parseVars, cleanVars, segVars, romanVars, crawlVars,
                 svBlocks, svEntries, headVars>>

\* parse_html_grouping, lines 82-102
BuildEntries ==
  /\ pc = "sub_group"
  /\ b_idx = Len(svBlocks)
  /\ svEntries' = SortEntries([i \in DOMAIN grouped |-> EntryOfGroup(grouped[i])])
  /\ pc' = "sub_done"
  /\ UNCHANGED <<file, mergeVars, runs, parseVars, cleanVars, segVars, romanVars, crawlVars,
                 svBlocks, b_idx, grouped, headVars>>

InitSubverse ==
  /\ file = <<>>
  /\ pc = "sub_group"
  /\ MergeIdle
  /\ ParseIdle
  /\ CleanIdle
  /\ SegIdle
  /\ RomanIdle
  /\ CrawlIdle
  /\ HeadIdle
  /\ svBlocks \in Documents
  /\ b_idx = 0
  /\ grouped = <<>>
  /\ svEntries = <<>>

NextSubverse == GroupBlock \/ BuildEntries

SpecSubverse == InitSubverse /\ [][NextSubverse]_vars

\* ------------------------------------------ parse_html_grouping: properties
\* the fragments of the document, in document order, each with its block number
RECURSIVE FragmentsIn(_, _)
FragmentsIn(bs, idx) ==
  IF bs = <<>> THEN <<>>
  ELSE [i \in DOMAIN Head(bs) |-> [frag |-> Head(bs)[i], block |-> idx]] \o FragmentsIn(Tail(bs), idx + 1)

FragmentsAt(k) == SelectSeq(FragmentsIn(svBlocks, 0), LAMBDA f : f.frag.key = k)

DocKeys == {FragmentsIn(svBlocks, 0)[i].frag.key : i \in DOMAIN FragmentsIn(svBlocks, 0)}

DistinctSuffixes(fs) == \A i, j \in DOMAIN fs : i # j => fs[i].frag.suffix # fs[j].frag.suffix

SuffixOrd(sfx) == IF sfx = "" THEN 0 ELSE Ord(sfx)

\* the segment texts of e, without the delimiters
PartsOf(e) == [i \in 1..((Len(e.transliteration) + 1) \div 2) |-> e.transliteration[2 * i - 1]]

EntryAtKey(k) == CHOOSE e \in {svEntries[i] : i \in DOMAIN svEntries} : <<e.mandala, e.sukta, e.verse>> = k

\* the non-empty segments of fs in the order given by the bijection p
InOrder(fs, parts, less(_, _)) ==
  \E p \in Bijections(Len(fs), DOMAIN fs) :
    /\ \A i, j \in DOMAIN fs : i < j => less(fs[p[i]], fs[p[j]])
    /\ parts = NonEmptySegments([i \in DOMAIN fs |-> <<"", fs[p[i]].frag.segment, 0>>])

BySuffix(f, g) == SuffixOrd(f.frag.suffix) < SuffixOrd(g.frag.suffix)

ByBlockThenSuffix(f, g) ==
  \/ f.block < g.block
  \/ f.block = g.block /\ SuffixOrd(f.frag.suffix) < SuffixOrd(g.frag.suffix)

RomanMax == 3999

RomanTable ==
  <<<<1000, <<"M">>>>, <<900, <<"C", "M">>>>, <<500, <<"D">>>>, <<400, <<"C", "D">>>>,
    <<100, <<"C">>>>, <<90, <<"X", "C">>>>, <<50, <<"L">>>>, <<40, <<"X", "L">>>>,
    <<10, <<"X">>>>, <<9, <<"I", "X">>>>, <<5, <<"V">>>>, <<4, <<"I", "V">>>>, <<1, <<"I">>>>>>

RECURSIVE RomanFrom(_, _)
RomanFrom(n, i) ==
  IF n = 0 THEN <<>>
  ELSE IF RomanTable[i][1] <= n THEN RomanTable[i][2] \o RomanFrom(n - RomanTable[i][1], i)
  ELSE RomanFrom(n, i + 1)

int_to_roman(n) == RomanFrom(n, 1)

ToRoman ==
  /\ pc = "roman_start"
  /\ rtRoman' = int_to_roman(rtN)
  /\ pc' = "roman_numeral"
  /\ UNCHANGED <<file, mergeVars, runs, parseVars, cleanVars, segVars, subVars, rtN, rtBack, crawlVars, headVars>>

FromRoman ==
  /\ pc = "roman_numeral"
  /\ rtBack' = roman_to_int(rtRoman)
  /\ pc' = "roman_done"
  /\ UNCHANGED <<file, mergeVars, runs, parseVars, cleanVars, segVars, subVars, rtN, rtRoman, crawlVars, headVars>>

InitRoman ==
  /\ file = <<>>
  /\ pc = "roman_start"
  /\ MergeIdle
  /\ ParseIdle
  /\ CleanIdle
  /\ SegIdle
  /\ SubIdle
  /\ CrawlIdle
  /\ HeadIdle
  /\ rtN \in 1..RomanMax
  /\ rtRoman = <<>>
  /\ rtBack = 0

NextRoman == ToRoman \/ FromRoman

SpecRoman == InitRoman /\ [][NextRoman]_vars

\* C15: for every integer n with 1 <= n <= 3999, roman_to_int of the standard
\* subtractive Roman numeral of n is n.
C15_RoundTrip == (pc = "roman_done") => rtBack = rtN

C15_Witness ==
  /\ pc = "roman_done"
  /\ rtN = 3999
  /\ rtRoman = <<"M", "M", "M", "C", "M", "X", "C", "I", "X">>
  /\ rtBack = 3999

\* ------------------------------------------- one merge run, write by write
\* write_jsonl (lines 53-59) opens the output path with mode 'w', which empties
\* the file, and then writes one line per record; the run may end at any
\* statement (an exception of a loader, a signal, a failed write).

\* the canonical sets of a single run: an empty file is a JSONL file too
RunDatasets == Datasets \cup {<<>>}

\* the secondary sources of a single run
MaxRunEntries == 1
RunSources == SeqsUpTo(Entries, MaxRunEntries)

InitRun ==
  /\ file \in RunDatasets
  /\ pc = "idle"
  /\ MergeIdle
  /\ SegIdle
  /\ SubIdle
  /\ RomanIdle
  /\ CrawlIdle
  /\ HeadIdle
  /\ ParseIdle
  /\ CleanIdle

\* merge, lines 177-205, with any secondary source and any flags
LoadRun ==
  /\ runs = 0
  /\ \E s \in RunSources, ow \in BOOLEAN, fz \in BOOLEAN : LoadWith(s, ow, fz)

\* merge, line 177: load_jsonl raises on a line that is not JSON
DatasetUnreadable ==
  /\ pc = "idle"
  /\ pc' = "failed_load"
  /\ UNCHANGED <<file, mergeVars, runs, parseVars, cleanVars, segVars, subVars, romanVars, crawlVars, headVars>>

\* merge, lines 177-190: the dataset is loaded and copied, load_translations raises
TranslationsUnreadable ==
  /\ pc = "idle"
  /\ dataset' = file
  /\ orig' = file
  /\ afterExact' = file
  /\ pc' = "failed"
  /\ UNCHANGED <<file, src, overwrite, fuzzy, stats, updated, unmatched, runs, prevOrig,
                 prevStats, parseVars, cleanVars, segVars, subVars, romanVars, crawlVars, headVars>>

\* write_jsonl, line 57: open(out_path, 'w') truncates the file
OpenOut ==
  /\ pc = "reported"
  /\ file' = <<>>
  /\ pc' = "writing"
  /\ UNCHANGED <<mergeVars, runs, parseVars, cleanVars, segVars, subVars, romanVars, crawlVars, headVars>>

\* write_jsonl, lines 58-59: one record, one line
WriteRecord ==
  /\ pc = "writing"
  /\ Len(file) < Len(dataset)
  /\ file' = Append(file, dataset[Len(file) + 1])
  /\ UNCHANGED <<pc, mergeVars, runs, parseVars, cleanVars, segVars, subVars, romanVars, crawlVars, headVars>>

\* write_jsonl, line 57: the with block ends after the last record
CloseOut ==
  /\ pc = "writing"
  /\ Len(file) = Len(dataset)
  /\ pc' = "written"
  /\ UNCHANGED <<file, mergeVars, runs, parseVars, cleanVars, segVars, subVars, romanVars, crawlVars, headVars>>

\* merge, lines 308-345: the summary and the report are written, merge returns
WriteSummary ==
  /\ pc = "written"
  /\ pc' = "merged"
  /\ UNCHANGED <<file, mergeVars, runs, parseVars, cleanVars, segVars, subVars, romanVars, crawlVars, headVars>>

\* the process ends between two statements of a run that has loaded its inputs
Killed ==
  /\ pc \in {"loaded", "exact_done", "seq_done", "reported", "writing", "written"}
  /\ pc' = "failed"
  /\ UNCHANGED <<file, mergeVars, runs, parseVars, cleanVars, segVars, subVars, romanVars, crawlVars, headVars>>

NextRun ==
  \/ LoadRun \/ ExactPass \/ SeqPass \/ Report
  \/ OpenOut \/ WriteRecord \/ CloseOut \/ WriteSummary
  \/ DatasetUnreadable \/ TranslationsUnreadable \/ Killed

SpecRun == InitRun /\ [][NextRun]_vars

\* C16: a merge run that fails or is cancelled at any step leaves at the output
\* path (here the dataset path) either the complete pre-run content or the
\* complete merged record set, never a partial or truncated set.
C16_AtomicFinalWrite ==
  /\ [](pc = "failed" => file \in {orig, dataset})
  /\ [][pc' = "failed_load" => file' = file]_vars

\* C19: when the canonical dataset is empty and the secondary source is not,
\* merge stops with a failure and writes no output dataset.
C19_EmptyCanonicalStops ==
  (orig = <<>> /\ src # <<>>) => pc \notin {"writing", "written", "merged"}

\* the records pass 2 pairs while their translation is non-empty
PopulatedPaired == {i \in DOMAIN orig : IsPaired(i) /\ Truthy(dataset[i].translation)}

\* C17: the sequence pass applies the conflict policy of the exact pass to every
\* positional pair whose canonical translation is non-empty: without overwrite the
\* field is left untouched and a presence tag is added to the notes; with overwrite
\* the new text is written, the tag added is not the one of a merge into an empty
\* field, and overwritten_translations is incremented.
C17_SeqConflictPolicy ==
  [][(pc = "exact_done" /\ pc' = "seq_done") =>
       /\ ~overwrite =>
            \A i \in PopulatedPaired :
              /\ dataset'[i].translation = dataset[i].translation
              /\ HasTag(dataset'[i].notes, "griffith_present")
       /\ overwrite =>
            /\ \A i \in PopulatedPaired :
                 /\ dataset'[i].translation = PairedEntry(i).text
                 /\ dataset'[i].notes[Len(dataset'[i].notes)] # "griffith_seq_merged"
            /\ stats'.overwritten_translations =
                 stats.overwritten_translations + Card(PopulatedPaired)]_vars

\* ------------------------------------------- parse_files on any input file
\* lines 156-157: entry.get('mandala', 0) and entry.get('sukta', 0) give 0 for an
\* entry without the field; split_into_stanzas (lines 111-117) takes the number of
\* a stanza from its marker, whatever the number.
RawStanzas == {[num |-> n, sanskrit |-> "a"] : n \in 0..MaxVerse}

RawEntryOf(m, s, verses) == [InputEntryOf(s, verses) EXCEPT !.mandala = m]

RawEntries ==
  {RawEntryOf(m, s, v) : m \in {0, 1}, s \in {0, 1}, v \in SeqsUpTo(RawStanzas, MaxStanzas)}

RawInputs == SeqsUpTo(RawEntries, MaxInputEntries)

InitParse ==
  /\ file = <<>>
  /\ pc = "raw"
  /\ MergeIdle
  /\ SegIdle
  /\ SubIdle
  /\ RomanIdle
  /\ CrawlIdle
  /\ HeadIdle
  /\ CleanIdle
  /\ input \in RawInputs
  /\ maxSuktas \in {0, 1}
  /\ summary = NoSummary

NextParse == ParseRun

SpecParse == InitParse /\ [][NextParse]_vars

\* C18: every record of the canonical set written by parse_files has
\* mandala >= 1, sukta >= 1 and verse_index >= 1, whatever the input entries
\* (entries without a mandala or sukta field, stanzas marked with the number 0).
C18_PositiveLocators ==
  (pc = "idle") =>
    \A i \in DOMAIN file :
      file[i].mandala >= 1 /\ file[i].sukta >= 1 /\ file[i].verse_index >= 1

\* ------------------------------------------ dedupe_and_select: the program
\* df holds the rows handed to dedupe_and_select; cleaned takes the winner and
\* review the others, as clean_dataframe (lines 233-252) files them.
DedupeAndSelect ==
  /\ pc = "dedupe_start"
  /\ LET d == dedupe_and_select(df)
     IN /\ cleaned' = <<d.best>>
        /\ review' = d.others
  /\ pc' = "dedupe_done"
  /\ UNCHANGED <<file, mergeVars, runs, parseVars, df, minLength, cleanStats, segVars, subVars, romanVars, crawlVars, headVars>>

InitDedupe ==
  /\ file = <<>>
  /\ pc = "dedupe_start"
  /\ MergeIdle
  /\ SegIdle
  /\ SubIdle
  /\ RomanIdle
  /\ CrawlIdle
  /\ HeadIdle
  /\ ParseIdle
  /\ df \in PairRows
  /\ minLength = 0
  /\ cleaned = <<>>
  /\ review = <<>>
  /\ cleanStats = NoCleanStats

NextDedupe == DedupeAndSelect

SpecDedupe == InitDedupe /\ [][NextDedupe]_vars

ProseRow(rows) == CHOOSE r \in {rows[i] : i \in DOMAIN rows} : Len(r.translation_text) = ProseLen

FragmentRow(rows) == CHOOSE r \in {rows[i] : i \in DOMAIN rows} : Len(r.translation_text) = FragmentLen

\* C20: of two candidates at one locator, a 300-character prose sentence and a
\* 15-character all-capitals fragment, score_text of the prose is strictly greater
\* than score_text of the fragment, and dedupe_and_select returns the prose
\* candidate as the winner, whichever of the two comes first in its input.
C20_ProseWins ==
  /\ (pc \in {"dedupe_start", "dedupe_done"}) =>
       FracLess(score_text(FragmentRow(df).translation_text),
                score_text(ProseRow(df).translation_text))
  /\ (pc = "dedupe_done") =>
       /\ cleaned = <<ProseRow(df)>>
       /\ review = <<FragmentRow(df)>>

\* the fragment comes first in the input and carries the best score a fragment can have
C20_Witness ==
  /\ pc = "dedupe_done"
  /\ df[1].translation_text = FragPunct
  /\ df[2].translation_text = Prose(PrefixNext, UnitSoma)
  /\ cleaned = <<df[2]>>
  /\ review = <<df[1]>>

\* ----------------------------------------------- parse_file: properties
\* a step of the loop over paras
ParagraphStep == pc = "seg_loop" /\ para < Len(paras) /\ para' = para + 1

\* the blocks of two or more lines that each begin with a verse-number marker
MarkerBlocks ==
  {b \in Blocks : Len(b) >= 2 /\ \A j \in DOMAIN b : NumVal(VERSE_RE(b[j]).tok, FALSE) # None}

\* C21: a paragraph of k >= 2 consecutive non-blank lines that each begin with an
\* explicit verse-number marker gives k candidates, the j-th with the number of
\* the j-th marker and with the text of its own line only (the text after the
\* marker, or the whole line when that text is too short).
C21_OnePerMarker ==
  [][ParagraphStep =>
       \A b \in MarkerBlocks :
         paras[para + 1] = Strip(JoinLines(b)) =>
           /\ Len(segEntries') = Len(segEntries) + Len(b)
           /\ \A j \in DOMAIN b :
                LET e == segEntries'[Len(segEntries) + j]
                IN /\ e.verse_index = NumVal(VERSE_RE(b[j]).tok, allow_roman)
                   /\ e.translation_text \in {Strip(VERSE_RE(b[j]).rest), b[j]}]_vars

\* a paragraph without an explicit verse-number marker: it does not begin with a
\* number, and letters of I, V, X, L, C, D, M at its start are the start of a word
NoExplicitMarker(p) ==
  LET tok == VERSE_RE(p).tok
  IN \/ tok = <<>>
     \/ /\ tok[1] \notin DigitSet
        /\ SubSeq(p, 1, Len(tok)) = tok
        /\ Len(p) > Len(tok)
        /\ p[Len(tok) + 1] \in LowerChars \cup UpperChars

\* the sample paragraphs that are neither junk nor a heading
StanzaParagraphs ==
  {p \in SampleParagraphs : /\ AnalysisOf[p].ln # <<>>
                            /\ ~AnalysisOf[p].junk
                            /\ Falsy(AnalysisOf[p].mand_tok)
                            /\ Falsy(AnalysisOf[p].hymn_tok)}

UnnumberedParagraphs == {p \in StanzaParagraphs : NoExplicitMarker(p)}

\* C22: for a paragraph that is neither junk nor a heading and holds no explicit
\* verse-number marker (prose that begins with I, V, X, L, C, D or M included),
\* parse_file adds exactly 1 to verse_counter and, when the paragraph meets
\* min_length, emits the whole normalized paragraph with the new counter value.
C22_UnnumberedParagraph ==
  [][(ParagraphStep /\ paras[para + 1] \in UnnumberedParagraphs) =>
       LET ln == AnalysisOf[paras[para + 1]].ln
       IN /\ verse_counter' = verse_counter + 1
          /\ segEntries' =
               IF Len(ln) >= segMinLength
               THEN Append(segEntries,
                           [mandala |-> current_mandala, sukta |-> current_sukta,
                            verse_index |-> verse_counter + 1, translation_text |-> ln])
               ELSE segEntries]_vars

\* the paragraphs that parse_file takes as a heading
MandalaHeadings == {p \in SampleParagraphs : /\ AnalysisOf[p].ln # <<>>
                                             /\ ~AnalysisOf[p].junk
                                             /\ ~Falsy(AnalysisOf[p].mand_tok)}

HymnHeadings == {p \in SampleParagraphs : /\ AnalysisOf[p].ln # <<>>
                                          /\ ~AnalysisOf[p].junk
                                          /\ Falsy(AnalysisOf[p].mand_tok)
                                          /\ ~Falsy(AnalysisOf[p].hymn_tok)}

\* the numbers of the most recent headings among the first k paragraphs
RECURSIVE LastMandala(_, _)
LastMandala(ps, k) ==
  IF k = 0 THEN 0
  ELSE IF ps[k] \in MandalaHeadings THEN AnalysisOf[ps[k]].mand_tok
  ELSE LastMandala(ps, k - 1)

RECURSIVE LastSukta(_, _)
LastSukta(ps, k) ==
  IF k = 0 \/ ps[k] \in MandalaHeadings THEN 0
  ELSE IF ps[k] \in HymnHeadings THEN AnalysisOf[ps[k]].hymn_tok
  ELSE LastSukta(ps, k - 1)

\* C23: a mandala heading sets current_mandala and resets current_sukta and
\* verse_counter to 0; a hymn heading sets current_sukta and resets verse_counter
\* to 0; a heading emits no candidate; every emitted candidate carries the
\* mandala and sukta of the most recent headings before it, and the first
\* unnumbered stanza after a hymn heading has verse_index 1.
C23_HeadingTracker ==
  [][ParagraphStep =>
       LET p == paras[para + 1]
           emitted == {i \in DOMAIN segEntries' : i > Len(segEntries)}
       IN /\ p \in MandalaHeadings =>
               /\ current_mandala' = AnalysisOf[p].mand_tok
               /\ current_sukta' = 0
               /\ verse_counter' = 0
               /\ segEntries' = segEntries
          /\ p \in HymnHeadings =>
               /\ current_mandala' = current_mandala
               /\ current_sukta' = AnalysisOf[p].hymn_tok
               /\ verse_counter' = 0
               /\ segEntries' = segEntries
          /\ \A i \in emitted :
               /\ segEntries'[i].mandala = LastMandala(paras, para)
               /\ segEntries'[i].sukta = LastSukta(paras, para)
          /\ (para >= 1 /\ paras[para] \in HymnHeadings /\ p \in UnnumberedParagraphs) =>
               \A i \in emitted : segEntries'[i].verse_index = 1]_vars

\* a stanza paragraph of one line with an explicit marker whose remainder is
\* shorter than min_length
ShortMarked(p, min_length) ==
  /\ p \in StanzaParagraphs
  /\ ~NoExplicitMarker(p)
  /\ Len(Strip(VERSE_RE(p).rest)) < min_length

\* C24: a line with an explicit marker n whose remainder is shorter than
\* min_length still sets verse_counter to n; it is emitted, as the whole line with
\* verse_index n, only when the whole line has min_length characters; the
\* following unnumbered paragraph gets verse_index n + 1.
C24_RemainderTooShort ==
  [][ParagraphStep =>
       LET p == paras[para + 1]
           emitted == {i \in DOMAIN segEntries' : i > Len(segEntries)}
       IN /\ ShortMarked(p, segMinLength) =>
               LET n == NumVal(VERSE_RE(p).tok, allow_roman)
               IN /\ verse_counter' = n
                  /\ segEntries' =
                       IF Len(p) >= segMinLength
                       THEN Append(segEntries,
                                   [mandala |-> current_mandala, sukta |-> current_sukta,
                                    verse_index |-> n, translation_text |-> p])
                       ELSE segEntries
          /\ (para >= 1 /\ ShortMarked(paras[para], segMinLength) /\ p \in UnnumberedParagraphs) =>
               \A i \in emitted :
                 segEntries'[i].verse_index = NumVal(VERSE_RE(paras[para]).tok, allow_roman) + 1]_vars

\* ------------------------------------------ roman_to_int on arbitrary strings
MaxRomanLen == 3

RomanStrings == SeqsUpTo(RomanChars, MaxRomanLen)

\* roman_to_int(r) called on a string of roman letters
ParseNumeral ==
  /\ pc = "numeral_start"
  /\ rtBack' = roman_to_int(rtRoman)
  /\ pc' = "numeral_done"
  /\ UNCHANGED <<file, mergeVars, runs, parseVars, cleanVars, segVars, subVars, rtN, rtRoman, crawlVars, headVars>>

InitNumeral ==
  /\ file = <<>>
  /\ pc = "numeral_start"
  /\ MergeIdle
  /\ ParseIdle
  /\ CleanIdle
  /\ SegIdle
  /\ SubIdle
  /\ CrawlIdle
  /\ HeadIdle
  /\ rtN = 0
  /\ rtRoman \in RomanStrings
  /\ rtBack = 0

NextNumeral == ParseNumeral

SpecNumeral == InitNumeral /\ [][NextNumeral]_vars

\* the symbol at position k stands in a run of lower-value symbols before a
\* higher-value symbol
InLowerRun(r, k) ==
  \E h \in (k + 1)..Len(r) : \A m \in k..(h - 1) : RomanValue(r[m]) < RomanValue(r[h])

RECURSIVE RunSum(_, _)
RunSum(r, k) ==
  IF k > Len(r) THEN 0
  ELSE (IF InLowerRun(r, k) THEN 0 - RomanValue(r[k]) ELSE RomanValue(r[k])) + RunSum(r, k + 1)

\* C25: for every string over I, V, X, L, C, D, M, roman_to_int returns the sum
\* of the symbol values in which each run of lower-value symbols standing before
\* a higher-value symbol is subtracted as a whole and every other symbol is
\* added (IIX gives 8, XIV gives 14).
C25_SubtractiveRuns == (pc = "numeral_done") => rtBack = RunSum(rtRoman, 1)

\* ------------------------------------------------- parse_files: properties
\* len(rec['sanskrit']) of the sample texts
SanskritLen(t) == IF t = "ab" THEN 2 ELSE IF t = Empty THEN 0 ELSE 1

\* the entries of the input that parse_files reads past line 158
ReadEntries(entries, max_suktas) ==
  {i \in DOMAIN entries : ~(max_suktas # 0 /\ entries[i].sukta > max_suktas)}

\* C26: when several stanzas of the input resolve to the same (mandala, sukta,
\* verse) id, the one record written for that id holds the longest sanskrit
\* text, whatever the order in which the stanzas were read.
C26_KeepsLongest ==
  [][(pc = "raw" /\ pc' = "idle") =>
       \A i \in ReadEntries(input, maxSuktas) :
         \A j \in DOMAIN input[i].verses :
           LET v == input[i].verses[j]
               written == {k \in DOMAIN file' :
                             file'[k].id = RecId(input[i].mandala, input[i].sukta, v.num)}
           IN /\ Cardinality(written) = 1
              /\ \A k \in written :
                   SanskritLen(file'[k].sanskrit) >= SanskritLen(v.sanskrit)]_vars

\* C27: the total_records value of the summary returned and written by
\* parse_files equals the number of records written to the output file, for
\* every input, an input that yields no records included.
C27_SummaryCount ==
  (pc = "idle") => /\ summary.written
                   /\ summary.total_records = Len(file)

\* ------------------------------------------------ crawl_griffith_hymns.py
\* MANDALA_END, MAX_HYMN_TRY and MAX_CONSECUTIVE_MISSES (10, 400 and 5 in the
\* script), scaled down
MandalaEnd == 2

MaxHymnTry == 5

MaxConsecutiveMisses == 2

MANDALA_START == 1

RETRY_ON_ERROR == 2

\* is_page_valid: the phrases looked for in the lowered page
PageChecks == {"the rig veda", "ralph t.h. griffith", "rig-veda", "rig veda", "hymn"}

\* a page is given by the phrases of PageChecks that its lowered text contains
Pages == {{"the rig veda", "rig veda", "hymn"}, {"hymn"}, {}}

is_page_valid(content) == content \cap PageChecks # {}

\* fetch_url returned None
NoResponse == [status |-> 0, content |-> {}]

Responses ==
  {[status |-> 200, content |-> c] : c \in Pages}
    \cup {[status |-> s, content |-> {}] : s \in {403, 404, 500}}

\* lines 96-112: the page is saved
Saved(r) == r # NoResponse /\ r.status = 200 /\ is_page_valid(r.content)

\* consecutive_misses that never goes back to 0
MissesAfter_NoReset(misses, r) == misses + 1

\* lines 89-119: consecutive_misses after the response r
MissesAfter(misses, r) ==
  IF r = NoResponse THEN misses + 1
  ELSE IF r.status = 200
       THEN (IF ~is_page_valid(r.content) THEN misses + 1 ELSE 0)
       ELSE misses + 1

\* lines 89-134: the rest of the loop body once fetch_url has returned r, the
\* break test and the step to the next hymn, the next mandala or the manifest
HandleResponse(r) ==
  LET misses == MissesAfter(consecutive_misses, r)
      stop == misses >= MaxConsecutiveMisses \/ crawl_hymn = MaxHymnTry
  IN /\ manifest' = IF Saved(r) THEN Append(manifest, <<crawl_mandala, crawl_hymn>>)
                    ELSE manifest
     /\ tries' = 0
     /\ IF ~stop
        THEN /\ crawl_hymn' = crawl_hymn + 1
             /\ consecutive_misses' = misses
             /\ UNCHANGED <<crawl_mandala, pc>>
        ELSE IF crawl_mandala < MandalaEnd
        THEN /\ crawl_mandala' = crawl_mandala + 1
             /\ crawl_hymn' = 1
             /\ consecutive_misses' = 0
             /\ UNCHANGED pc
        ELSE /\ pc' = "crawl_done"
             /\ consecutive_misses' = misses
             /\ UNCHANGED <<crawl_mandala, crawl_hymn>>
     /\ UNCHANGED <<file, mergeVars, runs, parseVars, cleanVars, segVars, subVars, romanVars, headVars>>

\* fetch_url, lines 64-71: requests.get raised and a retry is left
FetchRetry ==
  /\ pc = "crawl_fetch"
  /\ tries < RETRY_ON_ERROR
  /\ tries' = tries + 1
  /\ UNCHANGED <<file, pc, mergeVars, runs, parseVars, cleanVars, segVars, subVars, romanVars,
                 crawl_mandala, crawl_hymn, consecutive_misses, manifest, headVars>>

\* fetch_url, lines 64-68: requests.get raised and no retry is left
FetchFailed ==
  /\ pc = "crawl_fetch"
  /\ tries = RETRY_ON_ERROR
  /\ HandleResponse(NoResponse)

\* fetch_url, lines 61-63: requests.get returned
FetchResponse ==
  /\ pc = "crawl_fetch"
  /\ \E r \in Responses : HandleResponse(r)

InitCrawl ==
  /\ file = <<>>
  /\ pc = "crawl_fetch"
  /\ MergeIdle
  /\ ParseIdle
  /\ CleanIdle
  /\ SegIdle
  /\ SubIdle
  /\ RomanIdle
  /\ HeadIdle
  /\ crawl_mandala = MANDALA_START
  /\ crawl_hymn = 1
  /\ consecutive_misses = 0
  /\ tries = 0
  /\ manifest = <<>>

NextCrawl == FetchRetry \/ FetchFailed \/ FetchResponse

\* every request ends: requests.get has a timeout and the sleeps are finite
SpecCrawl == InitCrawl /\ [][NextCrawl]_vars /\ WF_vars(NextCrawl)

InManifest(mf, m, h) == \E i \in DOMAIN mf : mf[i] = <<m, h>>

\* the number of consecutive missed hymns of mandala m that end with hymn h
RECURSIVE TrailingMisses(_, _, _)
TrailingMisses(mf, m, h) ==
  IF h = 0 \/ InManifest(mf, m, h) THEN 0 ELSE 1 + TrailingMisses(mf, m, h - 1)

\* consecutive_misses counts the misses since the last saved page
CrawlCounter ==
  (pc = "crawl_fetch") =>
    /\ crawl_hymn \in 1..MaxHymnTry
    /\ consecutive_misses = TrailingMisses(manifest, crawl_mandala, crawl_hymn - 1)
    /\ consecutive_misses < MaxConsecutiveMisses

\* a step that ends the request of crawl_hymn
CrawlStep ==
  (pc = "crawl_fetch" /\ tries' = 0 /\ <<crawl_mandala, crawl_hymn, pc>>' # <<crawl_mandala, crawl_hymn, pc>>) =>
    LET stopped == crawl_mandala' # crawl_mandala \/ pc' = "crawl_done"
        missed == TrailingMisses(manifest', crawl_mandala, crawl_hymn)
    IN /\ stopped <=> (missed = MaxConsecutiveMisses \/ crawl_hymn = MaxHymnTry)
       /\ ~stopped => /\ crawl_hymn' = crawl_hymn + 1
                      /\ crawl_mandala' = crawl_mandala
                      /\ consecutive_misses' = missed
       /\ (stopped /\ pc' = "crawl_fetch") => /\ crawl_mandala' = crawl_mandala + 1
                                              /\ crawl_hymn' = 1
       /\ (Len(manifest') > Len(manifest) /\ ~stopped) => consecutive_misses' = 0

\* C28: for each mandala crawl requests the hymn numbers in increasing order and
\* stops the mandala exactly when MAX_CONSECUTIVE_MISSES consecutive requests
\* were misses or MAX_HYMN_TRY hymns were tried; a saved page resets the count of
\* consecutive misses; the crawl always terminates and skips no hymn that comes
\* after fewer than MAX_CONSECUTIVE_MISSES consecutive misses.
C28_StopRule ==
  /\ []CrawlCounter
  /\ [][CrawlStep]_vars
  /\ <>(pc = "crawl_done")

\* mandala 1 was left after hymn 1 was saved and hymns 2 and 3 were misses
C28_Witness ==
  /\ pc = "crawl_fetch"
  /\ crawl_mandala = 2
  /\ crawl_hymn = 1
  /\ manifest = << <<1, 1>> >>

\* ----------------------------------------------------- merge: frame of a run
IsPrefix(a, b) == Len(a) <= Len(b) /\ SubSeq(b, 1, Len(a)) = a

\* recs holds the records of orig in their order, each changed in translation and
\* notes only, the old notes a prefix of the new ones
FrameOf(recs) ==
  /\ Len(recs) = Len(orig)
  /\ \A i \in DOMAIN orig :
       /\ [recs[i] EXCEPT !.translation = orig[i].translation, !.notes = orig[i].notes] = orig[i]
       /\ IsPrefix(orig[i].notes, recs[i].notes)

\* C29: a merge run changes only the translation and notes of canonical records:
\* for every flag combination the output holds the same records in the same
\* order, each with its id, mandala, sukta, verse_index and other fields
\* unchanged, no record is created for an unmatched secondary entry, and the
\* pre-run notes of each record are a prefix of its post-run notes.
C29_MergeFrame ==
  /\ pc \in {"loaded", "exact_done", "seq_done", "reported"} => FrameOf(dataset)
  /\ RunDone => FrameOf(file)

\* a run that filled a record with notes and left a secondary entry unmatched
C29_Witness ==
  /\ RunDone
  /\ overwrite /\ fuzzy
  /\ \E i \in DOMAIN orig :
       /\ orig[i].notes # <<>>
       /\ file[i].translation # orig[i].translation
       /\ Len(file[i].notes) > Len(orig[i].notes)
  /\ \E j \in DOMAIN src : \A i \in DOMAIN orig : GroupOfRec(orig[i]) # GroupOfEntry(src[j])

\* ------------------------- extract_header_fields, then split_into_stanzas
\* A sukta text is the sequence of its lines.  A line is its content and the
\* number n of the marker ||n|| that ends it, 0 when it carries no marker; the
\* blank line has the empty content.
MaxBodyLines == 3

HeaderLine == [content |-> "header", marker |-> 0]

EmptyLine == [content |-> Empty, marker |-> 0]

TextLines ==
  {[content |-> c, marker |-> n] : c \in {"a", "b"}, n \in 0..MaxVerse} \cup {EmptyLine}

\* normalize_text (line 50) strips the text: it starts with the header line and
\* does not end with a blank line
SuktaTexts ==
  {<<HeaderLine>> \o t : t \in {u \in SeqsUpTo(TextLines, MaxBodyLines) :
                                  u = <<>> \/ u[Len(u)] # EmptyLine}}

IsBlankLine(ln) == ln.content = Empty

\* "\n".join(...).strip() on lines without outer blanks of their own
RECURSIVE StripBlankLines(_)
StripBlankLines(ls) ==
  IF ls = <<>> THEN <<>>
  ELSE IF IsBlankLine(ls[1]) THEN StripBlankLines(Tail(ls))
  ELSE IF IsBlankLine(ls[Len(ls)]) THEN StripBlankLines(SubSeq(ls, 1, Len(ls) - 1))
  ELSE ls

\* extract_header_fields, lines 54-105: the returned body.  header_lines is the
\* header line and the next two non-empty lines (line 63); the body is the text
\* without its first len(header_lines) lines (lines 102-103)
ExtractBody(text) ==
  LET nonEmpty == SelectSeq(text, LAMBDA ln : ~IsBlankLine(ln))
      header_lines == SubSeq(nonEmpty, 1, IF Len(nonEmpty) < 3 THEN Len(nonEmpty) ELSE 3)
  IN IF text = <<>> THEN <<>>
     ELSE StripBlankLines(SubSeq(text, Len(header_lines) + 1, Len(text)))

\* lines 111-120: re.split on the markers; the lines gathered up to a marker are
\* the content of the stanza with the marker's number, what follows the last
\* marker is left out
RECURSIVE MarkedStanzas(_, _, _)
MarkedStanzas(ls, content, found) ==
  IF ls = <<>> THEN found
  ELSE LET ln == Head(ls)
           gathered == IF IsBlankLine(ln) THEN content ELSE Append(content, ln.content)
       IN IF ln.marker # 0
          THEN MarkedStanzas(Tail(ls), <<>>, Append(found, [num |-> ln.marker, sanskrit |-> gathered]))
          ELSE MarkedStanzas(Tail(ls), gathered, found)

\* lines 130-131: re.split(r'\n\s*\n', body), the runs of lines between blank lines
RECURSIVE BlankSeparated(_, _, _)
BlankSeparated(ls, cur, found) ==
  IF ls = <<>> THEN (IF cur = <<>> THEN found ELSE Append(found, cur))
  ELSE IF IsBlankLine(Head(ls))
       THEN BlankSeparated(Tail(ls), <<>>, IF cur = <<>> THEN found ELSE Append(found, cur))
       ELSE BlankSeparated(Tail(ls), Append(cur, Head(ls).content), found)

\* split_into_stanzas(body), lines 107-137
split_into_stanzas(body) ==
  LET marked == MarkedStanzas(body, <<>>, <<>>)
      fallback == BlankSeparated(body, <<>>, <<>>)
  IN IF body = <<>> THEN <<>>
     ELSE IF marked # <<>> THEN marked
     ELSE [vi \in 1..(IF Len(fallback) < 10 THEN Len(fallback) ELSE 10) |->
             [num |-> vi, sanskrit |-> fallback[vi]]]

\* parse_files, line 161
ExtractHeader ==
  /\ pc = "header_start"
  /\ hdrBody' = ExtractBody(suktaText)
  /\ pc' = "header_split"
  /\ UNCHANGED <<file, mergeVars, runs, parseVars, cleanVars, segVars, subVars, romanVars, crawlVars,
                 suktaText, hdrVerses>>

\* parse_files, line 162
SplitStanzas ==
  /\ pc = "header_split"
  /\ hdrVerses' = split_into_stanzas(hdrBody)
  /\ pc' = "header_done"
  /\ UNCHANGED <<file, mergeVars, runs, parseVars, cleanVars, segVars, subVars, romanVars, crawlVars,
                 suktaText, hdrBody>>

InitHeader ==
  /\ file = <<>>
  /\ pc = "header_start"
  /\ MergeIdle
  /\ ParseIdle
  /\ CleanIdle
  /\ SegIdle
  /\ SubIdle
  /\ RomanIdle
  /\ CrawlIdle
  /\ suktaText \in SuktaTexts
  /\ hdrBody = <<>>
  /\ hdrVerses = <<>>

NextHeader == ExtractHeader \/ SplitStanzas

SpecHeader == InitHeader /\ [][NextHeader]_vars

\* C30: for a sukta text whose first non-empty line is the header line, every
\* stanza ended by a marker ||n|| on a later line, the second and third lines of
\* the text included, yields a record with verse_index n.
C30_NoStanzaLost ==
  (pc = "header_done") =>
    \A k \in 2..Len(suktaText) :
      suktaText[k].marker # 0 =>
        \E i \in DOMAIN hdrVerses :
          /\ hdrVerses[i].num = suktaText[k].marker
          /\ hdrVerses[i].sanskrit # <<>>
          /\ hdrVerses[i].sanskrit[Len(hdrVerses[i].sanskrit)] = suktaText[k].content

====
